---- MODULE Spec2Model ----
(***************************************************************************)
(* A model of the LIFX MCP server backend: the session-isolated log sink   *)
(* of the HTTP server, the JSON-RPC call correlator of mcpManager.js and   *)
(* the per-request orchestration (concurrency limiter, spawn, tool call,   *)
(* teardown).  Three specifications share the module, one per component:   *)
(* SpecLog, SpecCall and SpecReq.                                          *)
(***************************************************************************)
EXTENDS Integers, Sequences, FiniteSets, TLC

(***************************************************************************)
(* Bounds of the model.                                                    *)
(***************************************************************************)
\* number of HTTP requests to the control endpoint
NReq == 2
\* MAX_CONCURRENT_MCP (5 unless the environment sets it), scaled down
MAX_CONCURRENT_MCP == 1
\* number of lines the worker writes to its stdout
MaxLines == 3
\* number of addLogToStorage calls explored
MaxLogs == 2
\* logStorage.maxLogEntries (500 in the source), scaled down
maxLogEntries == 1
\* logStorage.maxSessions (50 in the source), scaled down
maxSessions == 1
\* the cap of the limit query parameter (100 in the source), scaled down
LimitCap == 1
\* the default limit of a backend log query (25 in the source), scaled down
DefaultLimitBackend == 1
\* the default limit of an mcp log query (20 in the source), scaled down
DefaultLimitMcp == 1

NoSession == "none"
SessionIds == {"sA", "sB", "sC"}
LogTypes == {"backend", "mcp"}
\* the readings of the wall clock the log sink sees
ClockTimes == {0, 1}

(***************************************************************************)
(* Messages are sequences of words; String.includes is the occurrence of   *)
(* a contiguous run of words, String.toLowerCase maps each word.           *)
(***************************************************************************)
ToLowerWord(w) ==
  CASE w = "Server" -> "server"
    [] w = "GET" -> "get"
    [] w = "MCP" -> "mcp"
    [] w = "Critical" -> "critical"
    [] w = "Uncaught" -> "uncaught"
    [] w = "Removed" -> "removed"
    [] w = "Session" -> "session"
    [] w = "New" -> "new"
    [] w = "Unauthorized" -> "unauthorized"
    [] w = "Cleaned" -> "cleaned"
    [] w = "Attempted" -> "attempted"
    [] w = "POST" -> "post"
    [] w = "IP" -> "ip"
    [] w = "API" -> "api"
    [] OTHER -> w

ToLowerCase(m) == [i \in 1..Len(m) |-> ToLowerWord(m[i])]

Includes(m, kw) ==
  \E i \in 1..Len(m) :
    /\ i + Len(kw) - 1 <= Len(m)
    /\ SubSeq(m, i, i + Len(kw) - 1) = kw

systemKeywords ==
  { <<"server", "started">>, <<"server", "stopped">>,
    <<"configuration", "loaded">>, <<"session", "limits", "initialized">>,
    <<"database", "connected">>, <<"redis", "connected">>,
    <<"critical", "error">>, <<"server", "health">>,
    <<"memory", "usage">>, <<"startup">> }

\* the messages the explored log calls carry
MsgRequest == <<"GET", "status">>
MsgStartupPath == <<"GET", "startup">>
MsgServerExit == <<"MCP", "server", "exited">>
MsgSpawnError == <<"MCP", "server", "spawn", "error">>
MsgUncaught == <<"Uncaught", "exception">>
MsgRemovedOldest ==
  <<"Removed", "oldest", "session", "logs", "due", "to", "memory", "limit">>

\* the log calls explored, as <<store type, level, message>>: the request
\* logging middleware for two request paths, the spawn error of mcpManager,
\* the uncaughtException handler and the exit capture of the MCP log callback
LogCalls ==
  { <<"backend", "info", MsgRequest>>,
    <<"backend", "info", MsgStartupPath>>,
    <<"backend", "error", MsgSpawnError>>,
    <<"backend", "error", MsgUncaught>>,
    <<"mcp", "warn", MsgServerExit>> }

\* the sessions on whose behalf logs are queried
QuerySessions == {"sA", "sB"}

VARIABLES
  logStorage,    \* [system, sessions]: the log sink's storage
  clock,         \* the wall clock new Date() reads
  nLogs,         \* the number of addLogToStorage calls made so far
  lastRecord,    \* the latest addLogToStorage call: its entry, the storage before
  lastQuery      \* the log query just answered and its result

logVars == <<logStorage, clock, nLogs, lastRecord, lastQuery>>

VARIABLES
  wire,          \* what the worker wrote to stdout and no data event delivered yet
  sent,          \* the responses and stray lines the worker wrote so far
  calls          \* per call of callMcpMethod: its closure and its promise

callVars == <<wire, sent, calls>>

VARIABLES
  activeMcpCount, \* the limiter's count of active requests
  req,            \* per HTTP request: the handler's position and its response
  proc            \* per HTTP request: the tool process spawned for it

reqVars == <<activeMcpCount, req, proc>>

VARIABLES
  sessionTimestamps,   \* sessionId -> creation timestamp
  sessionRequestCount, \* sessionId -> request count
  ipSessionMap,        \* IP -> set of session ids
  ipHits,              \* the store of the IP rate limiter: IP -> hits in the window
  createdAt,           \* when sessionTracker last created each session id
  nHttp,               \* the number of HTTP requests received so far
  lastOp               \* the request just answered or the sweep just run

sessVars == <<sessionTimestamps, sessionRequestCount, ipSessionMap, ipHits,
              createdAt, nHttp, lastOp>>

VARIABLES
  llm,           \* the conversation loop of one call of callClaudeWithMcp
  toolProcess    \* the tool process the conversation loop writes its calls to

llmVars == <<llm, toolProcess>>

VARIABLES
  wstdin,        \* what the client wrote and no data event delivered yet
  nWritten,      \* the number of lines the client wrote
  worker         \* the server: inputBuffer, the lines it read, the
                 \* invocations of the reader that wait for a tool, stdout

workerVars == <<wstdin, nWritten, worker>>

VARIABLES
  validated,     \* the request a body validator just judged, and its answer
  handshake      \* the closure and the promise of initializeMcpServer

extraVars == <<validated, handshake>>

vars == <<logVars, callVars, reqVars, sessVars, llmVars, workerVars, extraVars>>

None == [kind |-> "none"]

EmptyLogs == [t \in LogTypes |-> <<>>]

\* logStorage as constructed: two empty system buffers, an empty Map
InitLogStorage == [system |-> EmptyLogs, sessions |-> <<>>]

\* Array.prototype.slice(start) for an integer start
SliceFrom(arr, start) ==
  LET len == Len(arr)
      from == IF start < 0
                THEN (IF len + start < 0 THEN 0 ELSE len + start)
                ELSE (IF start > len THEN len ELSE start)
  IN SubSeq(arr, from + 1, len)

\* Map.has(sessionId) on logStorage.sessions
HasSession(st, sid) == \E i \in 1..Len(st.sessions) : st.sessions[i].id = sid

\* the position of sessionId in the Map's insertion order
SessionIndex(st, sid) ==
  CHOOSE i \in 1..Len(st.sessions) : st.sessions[i].id = sid

\* Helper to determine if a log should be system-wide
isSystemLog(message, sid, level) ==
  LET messageStr == ToLowerCase(message)
      isSystemKeyword == \E kw \in systemKeywords : Includes(messageStr, kw)
      hasNoSession == sid = NoSession
      isCritical == /\ level = "error"
                    /\ (Includes(messageStr, <<"server">>)
                          \/ Includes(messageStr, <<"critical">>))
  IN isSystemKeyword
       \/ (hasNoSession /\ (isCritical \/ Includes(messageStr, <<"server">>)))

\* the logEntry object addLogToStorage builds; n is the identity of the object
LogEntry(n, ts, level, message, sid) ==
  [n |-> n, timestamp |-> ts, level |-> level, message |-> message,
   sessionId |-> sid,
   logType |-> IF sid # NoSession THEN "session" ELSE "system"]

\* push(logEntry) without the slice that keeps the latest entries
PushUnbounded(buf, entry) == Append(buf, entry)

\* push(logEntry) followed by the slice(-maxLogEntries) of an over-full buffer
PushBounded(buf, entry) ==
  LET pushed == Append(buf, entry)
  IN IF Len(pushed) > maxLogEntries
       THEN SliceFrom(pushed, 0 - maxLogEntries)
       ELSE pushed

\* the system branch of addLogToStorage
AddSystemLog(st, type, entry) ==
  [st EXCEPT !.system[type] = PushBounded(@, entry)]

\* the session branch of addLogToStorage without the session limit
AddSessionLogNoEvict(st, type, entry) ==
  LET sid == entry.sessionId
      tracked == IF HasSession(st, sid)
                   THEN st
                   ELSE [st EXCEPT !.sessions =
                           Append(@, [id |-> sid, logs |-> EmptyLogs])]
      i == SessionIndex(tracked, sid)
  IN [tracked EXCEPT !.sessions[i].logs[type] = PushBounded(@, entry)]

\* the session branch of addLogToStorage; the logger.warn of the eviction is
\* itself a call of addLogToStorage: it carries no session and its message
\* is no system message, so it is stored nowhere
AddSessionLog(st, type, entry) ==
  LET sid == entry.sessionId
      evicted == IF Len(st.sessions) >= maxSessions
                   THEN [st EXCEPT !.sessions = Tail(@)]
                   ELSE st
      warned == IF Len(st.sessions) >= maxSessions
                     /\ isSystemLog(MsgRemovedOldest, NoSession, "warn")
                   THEN AddSystemLog(evicted, "backend",
                          LogEntry(0 - entry.n, entry.timestamp, "warn",
                                   MsgRemovedOldest, NoSession))
                   ELSE evicted
      tracked == IF HasSession(st, sid)
                   THEN st
                   ELSE [warned EXCEPT !.sessions =
                           Append(@, [id |-> sid, logs |-> EmptyLogs])]
      i == SessionIndex(tracked, sid)
  IN [tracked EXCEPT !.sessions[i].logs[type] = PushBounded(@, entry)]

\* Add logs to appropriate storage (system or session-specific)
addLogToStorage(st, type, entry) ==
  IF isSystemLog(entry.message, entry.sessionId, entry.level)
    THEN AddSystemLog(st, type, entry)
    ELSE IF entry.sessionId # NoSession
      THEN AddSessionLog(st, type, entry)
      ELSE st

\* the position at which the stable sort places an entry with timestamp ts
RECURSIVE InsertByTimestamp(_, _)
InsertByTimestamp(sorted, e) ==
  IF sorted = <<>>
    THEN <<e>>
    ELSE IF sorted[Len(sorted)].timestamp <= e.timestamp
      THEN Append(sorted, e)
      ELSE Append(InsertByTimestamp(SubSeq(sorted, 1, Len(sorted) - 1), e),
                  sorted[Len(sorted)])

\* [...].sort((a, b) => new Date(a.timestamp) - new Date(b.timestamp))
RECURSIVE SortByTimestamp(_)
SortByTimestamp(arr) ==
  IF arr = <<>>
    THEN <<>>
    ELSE InsertByTimestamp(SortByTimestamp(SubSeq(arr, 1, Len(arr) - 1)),
                           arr[Len(arr)])

\* a query option that is not given, a string, a number, and what parseInt
\* makes of a text that is no number
Absent == [k |-> "absent"]
Str(v) == [k |-> "str", v |-> v]
Num(n) == [k |-> "num", v |-> n]
NaN == [k |-> "nan"]

\* the limit the endpoint hands on: the query parameter or its default
EndpointLimit(type, limit) ==
  IF limit = Absent
    THEN (IF type = "backend" THEN Num(DefaultLimitBackend)
                              ELSE Num(DefaultLimitMcp))
    ELSE limit

\* Math.min(parseInt(options.limit || 25), 100)
LimitNum(limit) ==
  IF limit = NaN
    THEN NaN
    ELSE IF limit.v < LimitCap THEN limit ELSE Num(LimitCap)

\* filteredLogs.slice(-limitNum): a NaN start counts as 0
SliceLast(arr, limitNum) ==
  IF limitNum = NaN THEN SliceFrom(arr, 0) ELSE SliceFrom(arr, 0 - limitNum.v)

\* Get logs for a specific session (combines system + session logs)
getLogsForSession(st, sid, type, level, since, limit) ==
  LET systemLogs == st.system[type]
      sessionLogs == IF HasSession(st, sid)
                       THEN st.sessions[SessionIndex(st, sid)].logs[type]
                       ELSE <<>>
      combinedLogs == SortByTimestamp(systemLogs \o sessionLogs)
      LevelIs(log) == log.level = level.v
      NotBefore(log) == log.timestamp >= since.v
      byLevel == IF level # Absent
                   THEN SelectSeq(combinedLogs, LevelIs)
                   ELSE combinedLogs
      bySince == IF since # Absent THEN SelectSeq(byLevel, NotBefore) ELSE byLevel
  IN SliceLast(bySince, LimitNum(EndpointLimit(type, limit)))

(***************************************************************************)
(* The log sink: SpecLog.                                                  *)
(***************************************************************************)
InitLog ==
  /\ logStorage = InitLogStorage
  /\ clock = 0
  /\ nLogs = 0
  /\ lastRecord = None
  /\ lastQuery = None

\* time passes between two readings of new Date()
Tick ==
  /\ clock + 1 \in ClockTimes
  /\ clock' = clock + 1
  /\ lastQuery' = None
  /\ UNCHANGED <<logStorage, nLogs, lastRecord>>
  /\ UNCHANGED <<callVars, reqVars, sessVars, llmVars, workerVars, extraVars>>

\* one call of addLogToStorage: from the logger override (backend) or from the
\* MCP log callback (mcp)
Record(type, level, message, sid) ==
  LET entry == LogEntry(nLogs + 1, clock, level, message, sid)
  IN /\ nLogs < MaxLogs
     /\ nLogs' = nLogs + 1
     /\ logStorage' = addLogToStorage(logStorage, type, entry)
     /\ lastRecord' = [kind |-> "record", type |-> type, entry |-> entry,
                       prev |-> logStorage]
     /\ lastQuery' = None
     /\ UNCHANGED clock
     /\ UNCHANGED <<callVars, reqVars, sessVars, llmVars, workerVars, extraVars>>

\* the query strings explored, as <<level, since, limit>>
QueryOptions ==
  { <<Absent, Absent, Absent>>,
    <<Str("error"), Absent, Absent>>,
    <<Absent, Num(1), Absent>>,
    <<Absent, Absent, Num(1)>>,
    <<Absent, Absent, Num(0)>>,
    <<Absent, Absent, Num(0 - 1)>>,
    <<Absent, Absent, Num(LimitCap + 1)>>,
    <<Absent, Absent, NaN>> }

\* GET /api/logs/backend and GET /api/logs/mcp on behalf of session sid
QueryLogs(sid, type, level, since, limit) ==
  /\ lastQuery' = [kind |-> "query", sid |-> sid, type |-> type,
                   logs |-> getLogsForSession(logStorage, sid, type,
                                              level, since, limit)]
  /\ UNCHANGED <<logStorage, clock, nLogs, lastRecord>>
  /\ UNCHANGED <<callVars, reqVars, sessVars, llmVars, workerVars, extraVars>>

NextLog ==
  \/ Tick
  \/ \E c \in LogCalls, sid \in SessionIds \cup {NoSession} :
       Record(c[1], c[2], c[3], sid)
  \/ \E sid \in QuerySessions, type \in LogTypes, o \in QueryOptions :
       QueryLogs(sid, type, o[1], o[2], o[3])

(***************************************************************************)
(* The call correlator of mcpManager.js: SpecCall.  One tool process, its  *)
(* stdout delivered in data events of arbitrary size, and NCalls calls of  *)
(* callMcpMethod, each with a distinct request id.                         *)
(***************************************************************************)
CallIds == {1, 2}

\* The characters of the worker's stdout.  A response line is the two halves
\* of its JSON text and a newline; n tells the lines of the stream apart.
HeadCh(id, n) == [c |-> "head", id |-> id, n |-> n]
TailCh(kind) == [c |-> "tail", kind |-> kind]
JunkCh == [c |-> "junk"]
NewLine == [c |-> "nl"]

\* JSON.stringify(response) + newline, as the worker writes it; id 0 is the
\* id of no call (the null id of a parse error response)
ResponseLine(id, kind, n) == <<HeadCh(id, n), TailCh(kind), NewLine>>
\* a line of stdout that is no JSON text
JunkLine == <<JunkCh, NewLine>>
EmptyLine == <<NewLine>>

\* responseData.split(newline)
RECURSIVE Split(_)
Split(s) ==
  IF \A i \in 1..Len(s) : s[i] # NewLine
    THEN <<s>>
    ELSE LET i == CHOOSE j \in 1..Len(s) :
                    /\ s[j] = NewLine
                    /\ \A k \in 1..(j - 1) : s[k] # NewLine
         IN <<SubSeq(s, 1, i - 1)>> \o Split(SubSeq(s, i + 1, Len(s)))

\* The bytes of a character outside ASCII, written in UTF-8 as a lead byte
\* and a continuation byte, the character they decode to, and U+FFFD, the
\* replacement character a decoder puts for bytes that are no character
LeadByte == [c |-> "lead"]
ContByte == [c |-> "cont"]
WideChar == [c |-> "wide"]
Replacement == [c |-> "fffd"]

\* a response line whose JSON text holds a string with one such character
WideResponseLine(id, kind, n) ==
  <<HeadCh(id, n), LeadByte, ContByte, TailCh(kind), NewLine>>

\* data.toString(): the bytes of one chunk decoded as UTF-8 on their own.  A
\* lead byte with its continuation byte is the character; a lead byte
\* without one (the chunk ends, or another byte follows) and a continuation
\* byte without a lead byte are each replaced by U+FFFD
RECURSIVE toString(_)
toString(data) ==
  IF data = <<>>
    THEN <<>>
    ELSE IF data[1] = LeadByte
      THEN IF Len(data) >= 2 /\ data[2] = ContByte
             THEN <<WideChar>> \o toString(SubSeq(data, 3, Len(data)))
             ELSE <<Replacement>> \o toString(Tail(data))
      ELSE IF data[1] = ContByte
        THEN <<Replacement>> \o toString(Tail(data))
        ELSE <<data[1]>> \o toString(Tail(data))

\* JSON.parse(line): only a whole line is a JSON text; text is what its
\* string holds
Parse(line) ==
  IF /\ Len(line) >= 2
     /\ line[1].c = "head"
     /\ line[Len(line)].c = "tail"
     /\ \A i \in 2..(Len(line) - 1) : line[i] \in {WideChar, Replacement}
    THEN [ok |-> TRUE, id |-> line[1].id, kind |-> line[Len(line)].kind,
          n |-> line[1].n, text |-> SubSeq(line, 2, Len(line) - 1)]
    ELSE [ok |-> FALSE]

\* response.id === requestId
MatchesAnyId(response, requestId) == TRUE

Matches(response, requestId) == response.id = requestId

\* the closure of one call of callMcpMethod before the promise executor runs
IdleCall ==
  [state |-> "idle", written |-> FALSE, responseData |-> <<>>,
   timer |-> "none", listening |-> FALSE, outcome |-> "none",
   settles |-> 0, response |-> [ok |-> FALSE], order |-> <<>>]

\* the promise executor of callMcpMethod: arm the timer, listen, write the
\* request; a write that throws clears both and rejects
callMcpMethod(call, writeThrows) ==
  IF writeThrows
    THEN [call EXCEPT !.state = "started", !.timer = "cleared",
                      !.listening = FALSE, !.outcome = "rejected_write",
                      !.settles = @ + 1,
                      !.order = @ \o <<"clearTimeout", "off", "reject">>]
    ELSE [call EXCEPT !.state = "started", !.timer = "armed",
                      !.listening = TRUE, !.written = TRUE]

\* the index of the first complete line that parses and carries requestId,
\* 0 if there is none
FirstMatch(lines, requestId) ==
  LET hits == {i \in 1..(Len(lines) - 1) :
                 /\ lines[i] # <<>>
                 /\ Parse(lines[i]).ok
                 /\ Matches(Parse(lines[i]), requestId)}
  IN IF hits = {} THEN 0 ELSE CHOOSE i \in hits : \A j \in hits : i <= j

\* the timer of a call whose response arrived is not cleared
responseHandlerNoClear(call, requestId, data) ==
  LET buf == call.responseData \o toString(data)
      lines == Split(buf)
      m == FirstMatch(lines, requestId)
  IN IF m # 0
       THEN [call EXCEPT !.responseData = buf,
                         !.listening = FALSE,
                         !.outcome = IF Parse(lines[m]).kind = "error"
                                       THEN "rejected_error" ELSE "resolved",
                         !.settles = @ + 1,
                         !.response = Parse(lines[m]),
                         !.order = @ \o <<"off", "settle">>]
       ELSE [call EXCEPT !.responseData = lines[Len(lines)]]

\* responseHandler of callMcpMethod, run on one data event
responseHandler(call, requestId, data) ==
  LET buf == call.responseData \o toString(data)
      lines == Split(buf)
      m == FirstMatch(lines, requestId)
  IN IF m # 0
       THEN [call EXCEPT !.responseData = buf,
                         !.timer = "cleared",
                         !.listening = FALSE,
                         !.outcome = IF Parse(lines[m]).kind = "error"
                                       THEN "rejected_error" ELSE "resolved",
                         !.settles = @ + 1,
                         !.response = Parse(lines[m]),
                         !.order = @ \o <<"clearTimeout", "off", "settle">>]
       ELSE [call EXCEPT !.responseData = lines[Len(lines)]]

\* the callback of the method timer that rejects and leaves the listener on
methodTimeoutNoOff(call) ==
  [call EXCEPT !.timer = "fired",
               !.outcome = "rejected_timeout", !.settles = @ + 1,
               !.order = @ \o <<"reject">>]

\* the callback of the method timer: the listener is taken off stdout, then
\* the promise is rejected
methodTimeout(call) ==
  [call EXCEPT !.timer = "fired", !.listening = FALSE,
               !.outcome = "rejected_timeout", !.settles = @ + 1,
               !.order = @ \o <<"off", "reject">>]

InitCall ==
  /\ wire = <<>>
  /\ sent = <<>>
  /\ calls = [c \in CallIds |-> IdleCall]

\* a caller issues call c
StartCall(c, writeThrows) ==
  /\ calls[c].state = "idle"
  /\ calls' = [calls EXCEPT ![c] = callMcpMethod(@, writeThrows)]
  /\ UNCHANGED <<wire, sent>>
  /\ UNCHANGED <<logVars, reqVars, sessVars, llmVars, workerVars, extraVars>>

\* the lines the worker can write now: a response to a request it was sent,
\* a parse error response, stray output, an empty line
WorkerLines ==
  {ResponseLine(id, kind, Len(sent) + 1) :
     id \in {c \in CallIds : calls[c].written}, kind \in {"result", "error"}}
    \cup {ResponseLine(0, "error", Len(sent) + 1), JunkLine, EmptyLine}

\* the worker writes one line to its stdout
WorkerWrite(line) ==
  /\ Len(sent) < MaxLines
  /\ sent' = Append(sent, Parse(toString(SubSeq(line, 1, Len(line) - 1))))
  /\ wire' = wire \o line
  /\ UNCHANGED calls
  /\ UNCHANGED <<logVars, reqVars, sessVars, llmVars, workerVars, extraVars>>

\* one data event of stdout carrying the next k characters: every listener
\* attached runs on it
Deliver(k) ==
  /\ k \in 1..Len(wire)
  /\ wire' = SubSeq(wire, k + 1, Len(wire))
  /\ calls' = [c \in CallIds |->
                 IF calls[c].listening
                   THEN responseHandler(calls[c], c, SubSeq(wire, 1, k))
                   ELSE calls[c]]
  /\ UNCHANGED sent
  /\ UNCHANGED <<logVars, reqVars, sessVars, llmVars, workerVars, extraVars>>

\* the method timer of call c fires
MethodTimeout(c) ==
  /\ calls[c].timer = "armed"
  /\ calls' = [calls EXCEPT ![c] = methodTimeout(@)]
  /\ UNCHANGED <<wire, sent>>
  /\ UNCHANGED <<logVars, reqVars, sessVars, llmVars, workerVars, extraVars>>

NextCall ==
  \/ \E c \in CallIds, writeThrows \in BOOLEAN : StartCall(c, writeThrows)
  \/ \E line \in WorkerLines : WorkerWrite(line)
  \/ \E k \in 1..(3 * MaxLines) : Deliver(k)
  \/ \E c \in CallIds : MethodTimeout(c)

\* The same correlator on a worker whose results hold text outside ASCII (the
\* label of a light, say): each line the worker writes is a response to a
\* request it was sent, with or without such a character, or stray output.
\* A data event carries any number of the bytes written, wherever the
\* characters end.
WorkerByteLines ==
  {WideResponseLine(id, "result", Len(sent) + 1) :
     id \in {c \in CallIds : calls[c].written}}
    \cup {ResponseLine(id, "result", Len(sent) + 1) :
            id \in {c \in CallIds : calls[c].written}}
    \cup {JunkLine}

NextBytes ==
  \/ \E c \in CallIds : StartCall(c, FALSE)
  \/ \E line \in WorkerByteLines : WorkerWrite(line)
  \/ \E k \in 1..(5 * MaxLines) : Deliver(k)

(***************************************************************************)
(* The request orchestration: SpecReq.  NReq requests to the direct        *)
(* control endpoint POST /api/lifx/:action pass the concurrency limiter    *)
(* and the validation, spawn a tool process each, issue one tool call and  *)
(* tear the process down.  The result of the tool call is the one of the   *)
(* three outcomes the correlator produces.  Of the log calls only those of *)
(* cleanupMcpProcess are recorded.                                         *)
(***************************************************************************)
Requests == 1..NReq

\* the value of the lifxApiKey field of a request body
Credential == "lifx-token-value"

\* req.body of a control request: the credential and the tool's parameters
RequestBody == [lifxApiKey |-> Credential, selector |-> "all"]

\* req.params.action of a control request
RequestAction == "list_lights"

\* const { lifxApiKey, ...params } = req.body: every field but the credential
RestParams(body) == [k \in (DOMAIN body) \ {"lifxApiKey"} |-> body[k]]

\* a handler that hands the whole body on as the tool's parameters
toolParamsWholeBody(body) == body

\* the params the handler hands to callMcpMethod
toolParams(body) == RestParams(body)

\* the argument vector spawn() gives the child: the path of the tool server
spawnArgs(lifxApiKey) == <<"lifx-api-mcp-server.js">>

\* the environment spawn() gives the child
spawnEnv(lifxApiKey) ==
  [LIFX_TOKEN |-> lifxApiKey, LOG_LEVEL |-> "info", SESSION_ID |-> "session"]

\* the JSON-RPC request callMcpMethod writes to the child's stdin
JsonRpcRequest(method, params) ==
  [jsonrpc |-> "2.0", method |-> "tools/call",
   params |-> [name |-> method, arguments |-> params]]

\* the values a log call stores: its message and the values of its metadata
LogDirectControl(action, params) == {"Direct LIFX control", action} \cup DOMAIN params
LogSpawned == {"MCP server spawned successfully", "session"}
LogSpawnTimeout == {"MCP server spawn timeout", "session"}
LogSpawnError == {"MCP server spawn error", "spawn ENOENT", "session"}
LogRequestSent(method) == {"MCP method request sent", method, "session"}
LogCompleted(action) == {"LIFX control completed", action, "session"}
LogControlError(action, message) == {"LIFX control error", action, message, "session"}

\* a request the server has not received yet
NewRequest ==
  [pc |-> "new", admitted |-> FALSE, res |-> "open", status |-> 0,
   mcpProcess |-> FALSE, cleanups |-> 0, stdin |-> <<>>, events |-> <<>>,
   rpc |-> <<>>, logged |-> <<>>]

\* no child process
NoProcess ==
  [os |-> "none", killed |-> FALSE, promise |-> "none",
   spawnTimer |-> "none", forceTimer |-> "none", sigs |-> <<>>,
   log |-> <<>>, argv |-> <<>>, env |-> [k \in {} |-> ""],
   spawnedBy |-> 0, writers |-> <<>>, outcome |-> "none", settles |-> 0]

\* a server that keeps one process handle for all its requests
mcpProcessShared(r) == 1

\* the process handle a handler holds in its local variable mcpProcess: the
\* one its own call of spawnMcpServer returned
mcpProcessOf(r) == r

\* the operating system still has the process of the handle
Alive(p) == p.os \in {"starting", "running"}

\* subprocess.kill(signal): a live process is sent the signal and the handle's
\* killed flag is set; on a handle with no process it does nothing
kill(p, signal) ==
  IF Alive(p)
    THEN [p EXCEPT !.killed = TRUE, !.sigs = Append(@, signal)]
    ELSE p

\* resolve(mcpProcess) and reject(error) of the promise of spawnMcpServer:
\* how is "handle", "spawn_timeout" or "spawn_error"; a promise that is
\* settled stays as it is
spawnSettle(p, how) ==
  IF p.promise = "pending"
    THEN [p EXCEPT !.promise = IF how = "handle" THEN "resolved"
                                                 ELSE "rejected",
                   !.outcome = how,
                   !.settles = @ + 1]
    ELSE p

\* a spawn handler that leaves the spawn timer running
onSpawnNoClear(p) == spawnSettle([p EXCEPT !.os = "running"], "handle")

\* the handler of the child's spawn event: clearTimeout, resolve
onSpawn(p) ==
  spawnSettle([p EXCEPT !.os = "running",
                        !.spawnTimer = IF @ = "armed" THEN "cleared" ELSE @],
              "handle")

\* the handler of the child's error event: clearTimeout, reject
onSpawnError(p) ==
  spawnSettle([p EXCEPT !.os = "failedDone",
                        !.spawnTimer = IF @ = "armed" THEN "cleared" ELSE @],
              "spawn_error")

\* spawnMcpServer up to its return: the child is created and the spawn timer
\* armed; the operating system starts the process or fails to
spawnMcpServer(lifxApiKey, spawnOk) ==
  [NoProcess EXCEPT !.os = IF spawnOk THEN "starting" ELSE "failed",
                    !.promise = "pending",
                    !.spawnTimer = "armed",
                    !.argv = spawnArgs(lifxApiKey),
                    !.env = spawnEnv(lifxApiKey)]

\* Clean up MCP process
cleanupMcpProcess(p) ==
  IF ~p.killed
    THEN [kill(p, "SIGTERM") EXCEPT !.forceTimer = "armed",
                                    !.log = Append(@, "cleanup initiated")]
    ELSE p

\* the callback of the force kill timer of cleanupMcpProcess
forceKill(p) ==
  IF ~p.killed
    THEN [kill(p, "SIGKILL") EXCEPT !.forceTimer = "fired",
                                    !.log = Append(@, "force killed")]
    ELSE [p EXCEPT !.forceTimer = "fired"]

\* sendJsonWithSessionHeaders: the response is written unless the client is
\* gone; events lists what the handler did, in the order it did it
Respond(q, status) ==
  [q EXCEPT !.status = status,
            !.res = IF q.res = "open" THEN "sent" ELSE q.res,
            !.events = Append(@, "respond")]

InitReq ==
  /\ activeMcpCount = 0
  /\ req = [r \in Requests |-> NewRequest]
  /\ proc = [r \in Requests |-> NoProcess]

\* mcpLimiter, validateLifxRequest and the handler up to its await of
\* spawnMcpServer
Admit(r, valid, spawnOk) ==
  /\ req[r].pc = "new"
  /\ IF activeMcpCount >= MAX_CONCURRENT_MCP
       THEN /\ req' = [req EXCEPT ![r] = [Respond(@, 429) EXCEPT !.pc = "done"]]
            /\ UNCHANGED <<activeMcpCount, proc>>
       ELSE /\ activeMcpCount' = activeMcpCount + 1
            /\ IF ~valid
                 THEN /\ req' = [req EXCEPT ![r] =
                                   [Respond(@, 400) EXCEPT !.pc = "done",
                                                           !.admitted = TRUE]]
                      /\ UNCHANGED proc
                 ELSE /\ req' = [req EXCEPT
                             ![r].pc = "spawning",
                             ![r].admitted = TRUE,
                             ![r].logged =
                                Append(@, LogDirectControl(RequestAction,
                                             toolParams(RequestBody)))]
                      /\ proc' = [proc EXCEPT ![r] =
                             [spawnMcpServer(RequestBody.lifxApiKey, spawnOk)
                                EXCEPT !.spawnedBy = r]]

\* A request arrives that the middleware before mcpLimiter let pass
Arrive(r, valid, spawnOk) ==
  /\ Admit(r, valid, spawnOk)
  /\ UNCHANGED <<logVars, callVars, sessVars, llmVars, workerVars, extraVars>>

\* the spawn event of the child: the timer is cleared and the promise
\* resolved; the handler goes on to callMcpMethod, which writes the tool call
OnSpawn(r) ==
  /\ proc[r].os = "starting"
  /\ proc' = [[proc EXCEPT ![r] = onSpawn(@)]
       EXCEPT ![mcpProcessOf(r)].writers =
                IF proc[r].promise = "pending" THEN Append(@, r) ELSE @]
  /\ req' = IF proc[r].promise = "pending"
              THEN [req EXCEPT
                      ![r].pc = "calling",
                      ![r].mcpProcess = TRUE,
                      ![r].stdin = Append(@, "tools/call"),
                      ![r].rpc = Append(@, JsonRpcRequest(RequestAction,
                                              toolParams(RequestBody))),
                      ![r].logged = @ \o <<LogSpawned,
                                            LogRequestSent(RequestAction)>>]
              ELSE req
  /\ UNCHANGED activeMcpCount
  /\ UNCHANGED <<logVars, callVars, sessVars, llmVars, workerVars, extraVars>>

\* a handler that goes on to the tool call although spawnMcpServer rejected
SpawnRejectedProceeds(q) ==
  [q EXCEPT !.pc = "calling", !.stdin = Append(@, "tools/call")]

\* the handler's catch and finally after spawnMcpServer rejected: the error
\* response is sent and, mcpProcess being null, nothing is cleaned up
SpawnRejected(q) == [Respond(q, 500) EXCEPT !.pc = "done"]

\* the error event of the child
OnSpawnError(r) ==
  /\ proc[r].os = "failed"
  /\ proc' = [proc EXCEPT ![r] = onSpawnError(@)]
  /\ req' = IF proc[r].promise = "pending"
              THEN [req EXCEPT ![r] =
                      [SpawnRejected(@) EXCEPT !.logged =
                         @ \o <<LogSpawnError,
                                LogControlError(RequestAction, "spawn ENOENT")>>]]
              ELSE [req EXCEPT ![r].logged = Append(@, LogSpawnError)]
  /\ UNCHANGED activeMcpCount
  /\ UNCHANGED <<logVars, callVars, sessVars, llmVars, workerVars, extraVars>>

\* the callback of the spawn timer
spawnTimeout(p) ==
  IF ~p.killed
    THEN spawnSettle([kill(p, "SIGTERM") EXCEPT !.spawnTimer = "fired"],
                     "spawn_timeout")
    ELSE [p EXCEPT !.spawnTimer = "fired"]

\* the spawn timer fires before the spawn and the error event
SpawnTimeout(r) ==
  /\ proc[r].spawnTimer = "armed"
  /\ proc' = [proc EXCEPT ![r] = spawnTimeout(@)]
  /\ req' = IF ~proc[r].killed
              THEN [req EXCEPT ![r] =
                      [SpawnRejected(@) EXCEPT !.logged =
                         @ \o <<LogSpawnTimeout,
                                LogControlError(RequestAction,
                                                "MCP server spawn timeout")>>]]
              ELSE req
  /\ UNCHANGED activeMcpCount
  /\ UNCHANGED <<logVars, callVars, sessVars, llmVars, workerVars, extraVars>>

\* the finally block of the handler
Finally(q, p) ==
  IF q.mcpProcess
    THEN <<[q EXCEPT !.cleanups = @ + 1, !.pc = "done",
                     !.events = Append(@, "terminate")],
           cleanupMcpProcess(p)>>
    ELSE <<[q EXCEPT !.pc = "done"], p>>

\* a correlator whose calls have no timer
MethodOutcomesNoTimeout == {"resolved", "rejected_error"}

\* the ways callMcpMethod settles: the result of the response, the error of
\* the response, or the method timeout
MethodOutcomes == {"resolved", "rejected_error", "rejected_timeout"}

\* the tool call settles: the handler answers 200 with the result or 500
\* with the error, then runs its finally block
CallSettle(r, outcome) ==
  /\ req[r].pc = "calling"
  /\ outcome \in MethodOutcomes
  /\ outcome \in {"resolved", "rejected_error"} => proc[r].os = "running"
  /\ LET noted == [req[r] EXCEPT !.logged = Append(@,
                      IF outcome = "resolved"
                        THEN LogCompleted(RequestAction)
                        ELSE LogControlError(RequestAction, outcome))]
         answered == Respond(noted, IF outcome = "resolved" THEN 200 ELSE 500)
         fin == Finally(answered, proc[r])
     IN /\ req' = [req EXCEPT ![r] = fin[1]]
        /\ proc' = [proc EXCEPT ![r] = fin[2]]
  /\ UNCHANGED activeMcpCount
  /\ UNCHANGED <<logVars, callVars, sessVars, llmVars, workerVars, extraVars>>

\* the force kill timer fires, 5 seconds after cleanupMcpProcess
ForceKillTimer(r) ==
  /\ proc[r].forceTimer = "armed"
  /\ proc' = [proc EXCEPT ![r] = forceKill(@)]
  /\ UNCHANGED <<activeMcpCount, req>>
  /\ UNCHANGED <<logVars, callVars, sessVars, llmVars, workerVars, extraVars>>

\* the process exits: by itself, or on a signal it was sent
ProcExit(r) ==
  /\ proc[r].os = "running"
  /\ proc' = [proc EXCEPT ![r].os = "exited"]
  /\ UNCHANGED <<activeMcpCount, req>>
  /\ UNCHANGED <<logVars, callVars, sessVars, llmVars, workerVars, extraVars>>

\* the client goes away before the response: the close event of the
\* response, on which mcpLimiter decrements
ClientDisconnect(r) ==
  /\ req[r].pc \in {"spawning", "calling"}
  /\ req[r].res = "open"
  /\ req' = [req EXCEPT ![r].res = "aborted"]
  /\ activeMcpCount' = activeMcpCount - 1
  /\ UNCHANGED proc
  /\ UNCHANGED <<logVars, callVars, sessVars, llmVars, workerVars, extraVars>>

\* the finish event of a response that was sent, on which mcpLimiter
\* decrements
Finish(r) ==
  /\ req[r].res = "sent"
  /\ req' = [req EXCEPT ![r].res = "finished"]
  /\ activeMcpCount' = IF req[r].admitted
                         THEN activeMcpCount - 1
                         ELSE activeMcpCount
  /\ UNCHANGED proc
  /\ UNCHANGED <<logVars, callVars, sessVars, llmVars, workerVars, extraVars>>

\* the close event that follows the finish event, on which mcpLimiter
\* decrements
Close(r) ==
  /\ req[r].res = "finished"
  /\ req' = [req EXCEPT ![r].res = "closed"]
  /\ activeMcpCount' = IF req[r].admitted
                         THEN activeMcpCount - 1
                         ELSE activeMcpCount
  /\ UNCHANGED proc
  /\ UNCHANGED <<logVars, callVars, sessVars, llmVars, workerVars, extraVars>>

NextReq ==
  \/ \E r \in Requests, valid \in BOOLEAN, spawnOk \in BOOLEAN :
       Arrive(r, valid, spawnOk)
  \/ \E r \in Requests : OnSpawn(r)
  \/ \E r \in Requests : OnSpawnError(r)
  \/ \E r \in Requests : SpawnTimeout(r)
  \/ \E r \in Requests, outcome \in MethodOutcomes : CallSettle(r, outcome)
  \/ \E r \in Requests : ForceKillTimer(r)
  \/ \E r \in Requests : ProcExit(r)
  \/ \E r \in Requests : ClientDisconnect(r)
  \/ \E r \in Requests : Finish(r)
  \/ \E r \in Requests : Close(r)

(***************************************************************************)
(* The middleware in front of the handlers: SpecSess.  HTTP requests to    *)
(* the control endpoint, to a log endpoint and to the clear-session        *)
(* endpoint pass the request logging, the global validation, the access    *)
(* control, the session tracker, the session limiter and the IP limiter;   *)
(* the periodic sweep removes expired sessions.                            *)
(***************************************************************************)
\* number of HTTP requests explored
NHttp == 3
\* SESSION_REQUEST_LIMIT (100 unless the environment sets it), scaled down
SESSION_REQUEST_LIMIT == 1
\* IP_RATE_LIMIT_MAX (30 unless the environment sets it), scaled down
IP_RATE_LIMIT_MAX == 2
\* SESSION_MAX_AGE (24 hours unless the environment sets it), scaled down
SESSION_MAX_AGE == 1
\* the latest reading of the wall clock explored
MaxNow == 2

ClientIPs == {"ip1", "ip2"}
\* the x-session-id headers the explored requests carry
HeaderSessions == {"sA", "sB", NoSession}
\* POST /api/lifx/:action, GET /api/logs/backend, POST /api/clear-session
Endpoints == {"control", "logs", "clear"}
\* a request the global validation lets pass, a POST whose body is not JSON,
\* a request whose content-length exceeds 1MB, a control request whose body
\* validateLifxRequest rejects
Shapes == {"ok", "notJson", "tooLarge", "badBody"}

IsPost(ep) == ep \in {"control", "clear"}

\* the requests explored, as <<endpoint, client IP, x-session-id, whether
\* x-demo-key is the access key, shape>>: control requests of two sessions
\* from two IPs, a log query, clear-session from either IP, and each kind
\* of rejected request
HttpCalls ==
  {<<"control", ip, sid, TRUE, "ok">> : ip \in ClientIPs, sid \in {"sA", "sB"}}
    \cup {<<"clear", ip, "sA", TRUE, "ok">> : ip \in ClientIPs}
    \cup { <<"logs", "ip2", "sB", TRUE, "ok">>,
           <<"control", "ip1", NoSession, TRUE, "ok">>,
           <<"logs", "ip1", NoSession, TRUE, "ok">>,
           <<"clear", "ip1", NoSession, TRUE, "ok">>,
           <<"control", "ip1", "sA", FALSE, "ok">>,
           <<"clear", "ip1", "sA", FALSE, "ok">>,
           <<"control", "ip1", "sA", FALSE, "notJson">>,
           <<"control", "ip2", "sB", TRUE, "badBody">>,
           <<"logs", "ip1", NoSession, TRUE, "tooLarge">> }

\* the messages the middleware logs
MsgControlPath == <<"POST", "/api/lifx/list_lights">>
MsgLogsPath == <<"GET", "/api/logs/backend">>
MsgClearPath == <<"POST", "/api/clear-session">>
MsgUnauthorized == <<"Unauthorized", "access", "attempt">>
MsgNewSession == <<"New", "session", "created">>
MsgSessionLimit == <<"Session", "request", "limit", "exceeded">>
MsgIpLimit == <<"IP", "rate", "limit", "exceeded">>
MsgCleanedUp == <<"Cleaned", "up", "expired", "sessions">>
MsgClearedManually == <<"Session", "cleared", "manually">>
MsgClearedViaApi == <<"Session", "cleared", "via", "API">>
MsgClearMissing == <<"Attempted", "to", "clear", "non-existent", "session">>

\* `${req.method} ${req.path}`
RequestLine(ep) ==
  CASE ep = "control" -> MsgControlPath
    [] ep = "logs" -> MsgLogsPath
    [] ep = "clear" -> MsgClearPath

\* a Map without entries, Map.has, Map.set, Map.delete
EmptyMap == [k \in {} |-> 0]
Has(m, k) == k \in DOMAIN m
Set(m, k, v) == [x \in (DOMAIN m) \cup {k} |-> IF x = k THEN v ELSE m[x]]
Delete(m, k) == [x \in (DOMAIN m) \ {k} |-> m[x]]

\* ipSessionMap keeps its entries in the order of insertion: has, get, and
\* the index of an IP
IpHas(ips, ip) == \E i \in 1..Len(ips) : ips[i].ip = ip
IpIndex(ips, ip) == CHOOSE i \in 1..Len(ips) : ips[i].ip = ip
IpGet(ips, ip) == ips[IpIndex(ips, ip)].sessions

\* the state the middleware works on: the three tracking maps, the store of
\* the IP limiter, the log storage and the number of log calls made
\* the headers X-Requests-Used and X-Requests-Remaining of a response on
\* which they were not set
NoUsageHeaders == [set |-> FALSE, used |-> 0, remaining |-> 0]

World ==
  [ts |-> sessionTimestamps, cnt |-> sessionRequestCount,
   ips |-> ipSessionMap, hits |-> ipHits, born |-> createdAt,
   st |-> logStorage, n |-> nLogs, hdr |-> NoUsageHeaders]

\* a middleware's verdict: the state it leaves, whether it called next(),
\* and the response it sent if it did not
CallNext(w) == [w |-> w, pass |-> TRUE, status |-> 0, code |-> "none"]
Reject(w, status, code) ==
  [w |-> w, pass |-> FALSE, status |-> status, code |-> code]

\* logger[level](message, meta): the overridden logger stores the entry
LoggerCall(w, level, message, sid) ==
  [w EXCEPT !.st = addLogToStorage(@, "backend",
                     LogEntry(w.n + 1, clock, level, message, sid)),
            !.n = @ + 1]

\* the request logging middleware
requestLogging(w, ep, sid) ==
  CallNext(LoggerCall(w, "info", RequestLine(ep), sid))

\* validateContentType, then validateRequestSize
globalValidation(w, ep, shape) ==
  IF IsPost(ep) /\ shape = "notJson"
    THEN Reject(w, 400, "INVALID_CONTENT_TYPE")
    ELSE IF shape = "tooLarge"
      THEN Reject(w, 413, "REQUEST_TOO_LARGE")
      ELSE CallNext(w)

\* Simple access key protection
accessControl(w, keyOk) ==
  IF ~keyOk
    THEN Reject(LoggerCall(w, "warn", MsgUnauthorized, NoSession),
                401, "UNAUTHORIZED")
    ELSE CallNext(w)

\* Session tracker that opens the IP's mapping before it looks for the
\* session id
sessionTrackerIpFirst(w, ip, sid) ==
  LET withIp == IF ~IpHas(w.ips, ip)
                  THEN [w EXCEPT !.ips = Append(@, [ip |-> ip, sessions |-> {}])]
                  ELSE w
      created == IF ~Has(withIp.ts, sid)
                   THEN LoggerCall(
                          [withIp EXCEPT !.ts = Set(@, sid, clock),
                                         !.born = Set(@, sid, clock)],
                          "info", MsgNewSession, sid)
                   ELSE withIp
  IN IF sid = NoSession
       THEN Reject(withIp, 400, "MISSING_SESSION_ID")
       ELSE CallNext([created EXCEPT
                        !.ips[IpIndex(created.ips, ip)].sessions = @ \cup {sid}])

\* Session tracker middleware - supports multiple users
sessionTracker(w, ip, sid) ==
  IF sid = NoSession
    THEN Reject(w, 400, "MISSING_SESSION_ID")
    ELSE
      LET withIp == IF ~IpHas(w.ips, ip)
                      THEN [w EXCEPT !.ips =
                              Append(@, [ip |-> ip, sessions |-> {}])]
                      ELSE w
          created == IF ~Has(withIp.ts, sid)
                       THEN LoggerCall(
                              [withIp EXCEPT !.ts = Set(@, sid, clock),
                                             !.born = Set(@, sid, clock)],
                              "info", MsgNewSession, sid)
                       ELSE withIp
      IN CallNext([created EXCEPT
                     !.ips[IpIndex(created.ips, ip)].sessions = @ \cup {sid}])

\* Session request limiting, with > written for >=
sessionLimiterOffByOne(w, sid) ==
  LET currentCount == IF Has(w.cnt, sid) THEN w.cnt[sid] ELSE 0
  IN IF currentCount > SESSION_REQUEST_LIMIT
       THEN Reject(LoggerCall(w, "warn", MsgSessionLimit, sid),
                   429, "SESSION_LIMIT")
       ELSE CallNext([w EXCEPT !.cnt = Set(@, sid, currentCount + 1)])

\* Session request limiting that charges every session of the client's IP
sessionLimiterPerIp(w, sid) ==
  LET currentCount == IF Has(w.cnt, sid) THEN w.cnt[sid] ELSE 0
      sameIp == {s \in DOMAIN w.ts :
                   \E i \in 1..Len(w.ips) : {s, sid} \subseteq w.ips[i].sessions}
  IN IF currentCount >= SESSION_REQUEST_LIMIT
       THEN Reject(LoggerCall(w, "warn", MsgSessionLimit, sid),
                   429, "SESSION_LIMIT")
       ELSE CallNext([w EXCEPT !.cnt =
                        [s \in (DOMAIN w.cnt) \cup sameIp \cup {sid} |->
                           IF s \in sameIp \cup {sid}
                             THEN (IF Has(w.cnt, s) THEN w.cnt[s] ELSE 0) + 1
                             ELSE w.cnt[s]]])

\* Session request limiting whose headers tell the count before the request
sessionLimiterStaleHeaders(w, sid) ==
  LET currentCount == IF Has(w.cnt, sid) THEN w.cnt[sid] ELSE 0
  IN IF currentCount >= SESSION_REQUEST_LIMIT
       THEN Reject(LoggerCall(w, "warn", MsgSessionLimit, sid),
                   429, "SESSION_LIMIT")
       ELSE CallNext([w EXCEPT
                        !.cnt = Set(@, sid, currentCount + 1),
                        !.hdr = [set |-> TRUE, used |-> currentCount,
                                 remaining |->
                                   SESSION_REQUEST_LIMIT - currentCount]])

\* Session request limiting
sessionLimiter(w, sid) ==
  LET currentCount == IF Has(w.cnt, sid) THEN w.cnt[sid] ELSE 0
      newCount == currentCount + 1
  IN IF currentCount >= SESSION_REQUEST_LIMIT
       THEN Reject(LoggerCall(w, "warn", MsgSessionLimit, sid),
                   429, "SESSION_LIMIT")
       ELSE CallNext([w EXCEPT
                        !.cnt = Set(@, sid, newCount),
                        !.hdr = [set |-> TRUE, used |-> newCount,
                                 remaining |->
                                   SESSION_REQUEST_LIMIT - newCount]])

\* IP-based rate limiting: the hit is counted, then compared with the maximum
ipLimiter(w, ip) ==
  LET totalHits == (IF Has(w.hits, ip) THEN w.hits[ip] ELSE 0) + 1
      counted == [w EXCEPT !.hits = Set(@, ip, totalHits)]
  IN IF totalHits > IP_RATE_LIMIT_MAX
       THEN Reject(LoggerCall(counted, "warn", MsgIpLimit, NoSession),
                   429, "IP_RATE_LIMIT")
       ELSE CallNext(counted)

\* the IP mappings with the sessions of gone deleted from the sets of the
\* IPs in from; an IP of from whose set becomes empty is deleted
RemoveFromIps(ips, from, gone) ==
  LET pruned == [i \in 1..Len(ips) |->
                   IF ips[i].ip \in from
                     THEN [ips[i] EXCEPT !.sessions = @ \ gone]
                     ELSE ips[i]]
      Kept(e) == ~(e.ip \in from /\ e.sessions = {})
  IN SelectSeq(pruned, Kept)

\* a clear that resets the session's creation time and keeps its counter
clearSessionKeepsCount(w, sid, clientIP) ==
  LET hadRecord == Has(w.cnt, sid) \/ Has(w.ts, sid)
  IN [w |-> IF hadRecord
              THEN LoggerCall([w EXCEPT !.ts = Delete(@, sid)],
                              "info", MsgClearedManually, sid)
              ELSE w,
      cleared |-> hadRecord]

\* Clear specific session utility: the state it leaves and what it returns
clearSession(w, sid, clientIP) ==
  LET hadRecord == Has(w.cnt, sid) \/ Has(w.ts, sid)
      unTracked == [w EXCEPT !.cnt = Delete(@, sid), !.ts = Delete(@, sid)]
      holders == {i \in 1..Len(w.ips) : sid \in w.ips[i].sessions}
      first == CHOOSE i \in holders : \A k \in holders : i <= k
      \* the client's IP has an entry: only its set is looked at; otherwise
      \* the first IP whose set has the session
      from == IF IpHas(w.ips, clientIP)
                THEN (IF sid \in IpGet(w.ips, clientIP) THEN {clientIP} ELSE {})
                ELSE (IF holders = {} THEN {} ELSE {w.ips[first].ip})
      cleared == hadRecord \/ from # {}
      removed == [unTracked EXCEPT !.ips = RemoveFromIps(@, from, {sid})]
  IN [w |-> IF cleared
              THEN LoggerCall(removed, "info", MsgClearedManually, sid)
              ELSE removed,
      cleared |-> cleared]

\* the sessions the sweep finds expired
Expired(w) == {s \in DOMAIN w.ts : clock - w.ts[s] > SESSION_MAX_AGE}

\* Session cleanup utility
cleanupSessions(w) ==
  LET expired == Expired(w)
      swept == [w EXCEPT
                  !.cnt = [s \in (DOMAIN w.cnt) \ expired |-> w.cnt[s]],
                  !.ts = [s \in (DOMAIN w.ts) \ expired |-> w.ts[s]],
                  !.ips = RemoveFromIps(
                            @, {w.ips[i].ip : i \in 1..Len(w.ips)}, expired)]
  IN IF expired # {}
       THEN LoggerCall(swept, "info", MsgCleanedUp, NoSession)
       ELSE w

\* the request up to the route's own middleware
BeforeRoute(w, ep, sid, shape) ==
  LET logged == requestLogging(w, ep, sid)
  IN globalValidation(logged.w, ep, shape)

\* the chain with sessionTracker put in front of accessControl
TrackedThenAuth(w, ip, sid, keyOk) ==
  LET tracked == sessionTracker(w, ip, sid)
  IN IF tracked.pass THEN accessControl(tracked.w, keyOk) ELSE tracked

\* accessControl, sessionTracker: the chain of the log endpoints
Tracked(w, ip, sid, keyOk) ==
  LET auth == accessControl(w, keyOk)
  IN IF auth.pass THEN sessionTracker(auth.w, ip, sid) ELSE auth

\* the chain with ipLimiter put in front of sessionLimiter
ControlChainIpFirst(w, ip, sid, keyOk) ==
  LET tracked == Tracked(w, ip, sid, keyOk)
      limited == IF tracked.pass THEN ipLimiter(tracked.w, ip) ELSE tracked
  IN IF limited.pass THEN sessionLimiter(limited.w, sid) ELSE limited

\* accessControl, sessionTracker, sessionLimiter, ipLimiter: the chain of
\* the control endpoints in front of mcpLimiter
ControlChain(w, ip, sid, keyOk) ==
  LET tracked == Tracked(w, ip, sid, keyOk)
      limited == IF tracked.pass THEN sessionLimiter(tracked.w, sid) ELSE tracked
  IN IF limited.pass THEN ipLimiter(limited.w, ip) ELSE limited

\* the handler of GET /api/logs/backend answers
LogsHandler(w) == Reject(w, 200, "OK")

\* POST /api/clear-session: accessControl and the handler
ClearChain(w, ip, sid, keyOk) ==
  LET auth == accessControl(w, keyOk)
      done == clearSession(auth.w, sid, ip)
  IN IF ~auth.pass
       THEN auth
       ELSE IF sid = NoSession
         THEN Reject(auth.w, 400, "MISSING_SESSION_ID")
         ELSE IF done.cleared
           THEN Reject(LoggerCall(done.w, "info", MsgClearedViaApi, sid),
                       200, "CLEARED")
           ELSE Reject(LoggerCall(done.w, "warn", MsgClearMissing, sid),
                       200, "NOT_FOUND")

\* the middleware of a request, up to the response or to mcpLimiter
Route(w, ep, ip, sid, keyOk, shape) ==
  LET before == BeforeRoute(w, ep, sid, shape)
      tracked == Tracked(before.w, ip, sid, keyOk)
  IN IF ~before.pass
       THEN before
       ELSE CASE ep = "control" -> ControlChain(before.w, ip, sid, keyOk)
              [] ep = "logs" -> IF tracked.pass THEN LogsHandler(tracked.w)
                                                ELSE tracked
              [] ep = "clear" -> ClearChain(before.w, ip, sid, keyOk)

InitSess ==
  /\ sessionTimestamps = EmptyMap
  /\ sessionRequestCount = EmptyMap
  /\ ipSessionMap = <<>>
  /\ ipHits = EmptyMap
  /\ createdAt = EmptyMap
  /\ nHttp = 0
  /\ lastOp = None

\* the tracking state the middleware left becomes the state of the server
Commit(w) ==
  /\ sessionTimestamps' = w.ts
  /\ sessionRequestCount' = w.cnt
  /\ ipSessionMap' = w.ips
  /\ ipHits' = w.hits
  /\ createdAt' = w.born

\* the log entries the middleware's logger calls filed are stored
CommitLogs(w) ==
  /\ logStorage' = w.st
  /\ nLogs' = w.n

\* the request slot the handler of an admitted control request runs in
FreeSlots == {r \in Requests : req[r].pc = "new"}
NextSlot == CHOOSE r \in FreeSlots : \A q \in FreeSlots : r <= q

\* one HTTP request is received and handled up to its response, or, on the
\* control endpoint, up to the handler's await of spawnMcpServer; logged says
\* whether the run observes the log storage (the storage never feeds back
\* into the middleware: no handler of the chain reads it)
Handle(ep, ip, sid, keyOk, shape, logged) ==
  /\ nHttp < NHttp
  /\ \E out \in {Route(World, ep, ip, sid, keyOk, shape)} :
     /\ nHttp' = nHttp + 1
     /\ Commit(out.w)
     /\ IF logged THEN CommitLogs(out.w) ELSE UNCHANGED <<logStorage, nLogs>>
     /\ lastOp' = [kind |-> "http", ep |-> ep, ip |-> ip, sid |-> sid,
                   keyOk |-> keyOk, shape |-> shape, pass |-> out.pass,
                   status |-> out.status, code |-> out.code,
                   hdr |-> out.w.hdr,
                   slot |-> IF out.pass /\ FreeSlots # {}
                             THEN NextSlot ELSE 0]
     /\ IF out.pass
          THEN /\ FreeSlots # {}
               /\ Admit(NextSlot, shape # "badBody", TRUE)
          ELSE UNCHANGED reqVars
     /\ UNCHANGED <<clock, lastRecord, lastQuery>>
     /\ UNCHANGED <<callVars, llmVars, workerVars, extraVars>>

Http(ep, ip, sid, keyOk, shape) == Handle(ep, ip, sid, keyOk, shape, FALSE)

HttpLogged(ep, ip, sid, keyOk, shape) ==
  Handle(ep, ip, sid, keyOk, shape, TRUE)

\* the periodic sweep: setInterval(cleanupSessions, SESSION_CLEANUP_INTERVAL)
Swept(logged) ==
  /\ \E w \in {cleanupSessions(World)} :
       /\ Commit(w)
       /\ IF logged THEN CommitLogs(w) ELSE UNCHANGED <<logStorage, nLogs>>
  /\ lastOp' = [kind |-> "sweep", cleaned |-> Expired(World)]
  /\ UNCHANGED <<clock, lastRecord, lastQuery, nHttp>>
  /\ UNCHANGED <<callVars, reqVars, llmVars, workerVars, extraVars>>

Sweep == Swept(FALSE)

SweepLogged == Swept(TRUE)

\* the window of the IP limiter ends for an IP: its hits are forgotten
IpWindowReset(ip) ==
  /\ Has(ipHits, ip)
  /\ ipHits' = Delete(ipHits, ip)
  /\ lastOp' = None
  /\ UNCHANGED <<sessionTimestamps, sessionRequestCount, ipSessionMap,
                 createdAt, nHttp>>
  /\ UNCHANGED <<logVars, callVars, reqVars, llmVars, workerVars, extraVars>>

\* time passes
Elapse ==
  /\ clock < MaxNow
  /\ clock' = clock + 1
  /\ lastOp' = None
  /\ UNCHANGED <<sessionTimestamps, sessionRequestCount, ipSessionMap, ipHits,
                 createdAt, nHttp>>
  /\ UNCHANGED <<logStorage, nLogs, lastRecord, lastQuery>>
  /\ UNCHANGED <<callVars, reqVars, llmVars, workerVars, extraVars>>

NextSess ==
  \/ \E c \in HttpCalls : Http(c[1], c[2], c[3], c[4], c[5])
  \/ Sweep
  \/ \E ip \in ClientIPs : IpWindowReset(ip)
  \/ Elapse

\* the same server, observed together with its log storage
NextSessLog ==
  \/ \E c \in HttpCalls : HttpLogged(c[1], c[2], c[3], c[4], c[5])
  \/ SweepLogged
  \/ \E ip \in ClientIPs : IpWindowReset(ip)
  \/ Elapse

(***************************************************************************)
(* The conversation loop of callClaudeWithMcp (claudeApi.js): SpecLlm.  The *)
(* model is asked, and while it stops for tool use every tool_use block of *)
(* its response is executed with callMcpMethod on the request's tool       *)
(* process and the results are sent back.  What the model answers and how  *)
(* each tool call settles are inputs.                                      *)
(***************************************************************************)
\* the most content blocks in one response of the model
MaxBlocks == 2
\* the most calls of anthropic.messages.create in one request: the model
\* gives its final answer in the last of them at the latest
MaxCreates == 3

TextBlock == [type |-> "text"]
ToolUse(id) == [type |-> "tool_use", id |-> id]

\* the ways callMcpMethod settles
ToolOutcomes ==
  {"resolved", "rejected_error", "rejected_timeout", "rejected_write"}

\* the responses the model can give to create call number n: up to MaxBlocks
\* blocks, the tool_use block at position k carrying an id of its own
ModelContents(n) ==
  UNION {{[k \in 1..len |-> IF kinds[k] = "text"
                              THEN TextBlock
                              ELSE ToolUse(10 * n + k)] :
            kinds \in [1..len -> {"text", "tool_use"}]} :
         len \in 0..MaxBlocks}

\* callClaudeWithMcp before it is called
IdleLoop ==
  [pc |-> "idle", content |-> <<>>, i |-> 0, toolResults |-> <<>>,
   outcomes |-> <<>>, conversationMessages |-> <<>>, creates |-> 0,
   hasToolErrors |-> FALSE, stop_reason |-> "none"]

\* the tool process of a chat request, running
LiveToolProcess == [exited |-> FALSE, whilePending |-> FALSE]

\* the index of the first tool_use block of content at or after from, 0 if
\* there is none
NextToolUse(content, from) ==
  LET at == {k \in from..Len(content) : content[k].type = "tool_use"}
  IN IF at = {} THEN 0 ELSE CHOOSE k \in at : \A j \in at : k <= j

\* a loop that asks the model again after a turn without tool results
EndOfTurnNoBreak(l) ==
  [l EXCEPT !.conversationMessages =
              Append(@, [role |-> "assistant", content |-> l.content]),
            !.pc = "model",
            !.i = 0]

\* the end of one turn of the while loop, after the for loop over the blocks:
\* the assistant's response is added to the conversation; with tool results
\* they are added too and the model is asked again, without any the loop is
\* left and the function returns
EndOfTurn(l) ==
  LET said == Append(l.conversationMessages,
                     [role |-> "assistant", content |-> l.content])
  IN IF Len(l.toolResults) > 0
       THEN [l EXCEPT !.conversationMessages =
                         Append(said, [role |-> "user",
                                       content |-> l.toolResults]),
                      !.pc = "model",
                      !.i = 0,
                      !.creates = @ + 1]
       ELSE [l EXCEPT !.conversationMessages = said, !.pc = "returned",
                      !.i = 0]

\* the for loop over response.content goes on at block from, up to the
\* await of the next callMcpMethod or to the end of the turn
ForBlocks(l, from) ==
  LET k == NextToolUse(l.content, from)
  IN IF k # 0 THEN [l EXCEPT !.pc = "tool", !.i = k] ELSE EndOfTurn(l)

\* the try block after callMcpMethod resolved: Track successful tool result
toolSucceeded(l, outcome) ==
  [l EXCEPT !.toolResults =
              Append(@, [tool_use_id |-> l.content[l.i].id,
                         type |-> "tool_result", is_error |-> FALSE]),
            !.outcomes = Append(@, outcome)]

\* a catch block that throws the tool error on, which ends the request
toolFailedRethrows(l, outcome) ==
  [l EXCEPT !.pc = "thrown", !.outcomes = Append(@, outcome)]

\* the catch block around callMcpMethod: Track error result for Claude
toolFailed(l, outcome) ==
  [l EXCEPT !.hasToolErrors = TRUE,
            !.toolResults =
              Append(@, [tool_use_id |-> l.content[l.i].id,
                         type |-> "tool_result", is_error |-> TRUE]),
            !.outcomes = Append(@, outcome)]

InitLlm == llm = IdleLoop /\ toolProcess = LiveToolProcess

\* callClaudeWithMcp is called and awaits the first anthropic.messages.create
CallClaude ==
  /\ llm.pc = "idle"
  /\ llm' = [llm EXCEPT !.pc = "model", !.creates = 1,
                        !.conversationMessages =
                          <<[role |-> "user", content |-> <<>>]>>]
  /\ UNCHANGED toolProcess
  /\ UNCHANGED <<logVars, callVars, reqVars, sessVars, workerVars, extraVars>>

\* the model's response arrives; on stop_reason tool_use a turn of the while
\* loop starts and runs up to its first await
ModelResponds(stop_reason, content) ==
  /\ llm.pc = "model"
  /\ stop_reason = "tool_use" => llm.creates < MaxCreates
  /\ llm' = IF stop_reason = "tool_use"
              THEN ForBlocks([llm EXCEPT !.content = content,
                                         !.toolResults = <<>>,
                                         !.outcomes = <<>>,
                                         !.hasToolErrors = FALSE,
                                         !.stop_reason = stop_reason], 1)
              ELSE [llm EXCEPT !.content = content, !.pc = "returned",
                               !.stop_reason = stop_reason]
  /\ UNCHANGED toolProcess
  /\ UNCHANGED <<logVars, callVars, reqVars, sessVars, workerVars, extraVars>>

\* anthropic.messages.create rejects: the catch block of callClaudeWithMcp
\* throws the error on
ModelFails ==
  /\ llm.pc = "model"
  /\ llm' = [llm EXCEPT !.pc = "thrown"]
  /\ UNCHANGED toolProcess
  /\ UNCHANGED <<logVars, callVars, reqVars, sessVars, workerVars, extraVars>>

\* the callMcpMethod of the tool_use block at hand settles, and the for loop
\* goes on
ToolSettles(outcome) ==
  /\ llm.pc = "tool"
  /\ toolProcess.exited => outcome = "rejected_timeout"
  /\ \E done \in {IF outcome = "resolved" THEN toolSucceeded(llm, outcome)
                                        ELSE toolFailed(llm, outcome)} :
       llm' = IF done.pc = "thrown" THEN done ELSE ForBlocks(done, llm.i + 1)
  /\ UNCHANGED toolProcess
  /\ UNCHANGED <<logVars, callVars, reqVars, sessVars, workerVars, extraVars>>

\* the tool process of the request exits while the function runs: the exit
\* handler logs the exit; a call that is pending, and every later one, gets
\* no response and ends by its timeout
ToolProcessExits ==
  /\ llm.pc \in {"model", "tool"}
  /\ ~toolProcess.exited
  /\ toolProcess' = [exited |-> TRUE, whilePending |-> (llm.pc = "tool")]
  /\ UNCHANGED llm
  /\ UNCHANGED <<logVars, callVars, reqVars, sessVars, workerVars, extraVars>>

\* the await of anthropic.messages.create ends
ModelSettles ==
  \/ \E content \in ModelContents(llm.creates) :
       ModelResponds("tool_use", content)
  \/ ModelResponds("end_turn", <<TextBlock>>)
  \/ ModelFails

NextLlm ==
  \/ CallClaude
  \/ \E content \in ModelContents(llm.creates) :
       ModelResponds("tool_use", content)
  \/ ModelResponds("end_turn", <<TextBlock>>)
  \/ ModelFails
  \/ \E outcome \in ToolOutcomes : ToolSettles(outcome)
  \/ ToolProcessExits

(***************************************************************************)
(* The tool server lifx-api-mcp-server.js: SpecWorker.  A client writes up *)
(* to MaxStdinLines lines to the server's stdin; the data events of stdin  *)
(* carry them in chunks of any size; the server answers on its stdout.     *)
(***************************************************************************)
MaxStdinLines == 3

\* The characters of the server's stdin: the JSON text of a request (one
\* character stands for the whole text), text that is no JSON, a space
RqCh(request) == [c |-> "rq", request |-> request]
SpaceCh == [c |-> "sp"]

\* ids of requests: the ids callMcpMethod and initializeMcpServer make, the
\* number 0, and a request without an id; null is the id of no request
HostIds == {"req_1", "init"}
IdZero == "0"
IdAbsent == "absent"
IdNull == "null"

\* request.id || null
OrNull(id) == IF id \in {IdZero, IdAbsent} THEN IdNull ELSE id

\* the names of the tools object: its own properties (list_lights stands
\* for the eight of them) and what it inherits from Object.prototype
OwnTools == {"list_lights"}
InheritedNames == {"toString"}

\* a lookup that sees the object's own properties only
toolsOwn(name) ==
  IF name \in OwnTools THEN "tool" ELSE "undefined"

\* tools[name]
toolsLookup(name) ==
  IF name \in OwnTools
    THEN "tool"
    ELSE IF name \in InheritedNames THEN "inherited" ELSE "undefined"

ToolCall(id, name) ==
  [jsonrpc |-> "2.0", id |-> id, method |-> "tools/call", name |-> name]
OtherRequest(version, id, method) ==
  [jsonrpc |-> version, id |-> id, method |-> method, name |-> "none"]

\* the lines a client writes
ClientLines ==
  {<<RqCh(ToolCall(id, name))>> :
     id \in {"req_1", IdZero},
     name \in {"list_lights", "no_such_tool", "toString"}}
    \cup {<<RqCh(OtherRequest("2.0", "init", "initialize"))>>,
          <<RqCh(OtherRequest("2.0", IdAbsent, "notifications/initialized"))>>,
          <<RqCh(OtherRequest("1.0", "req_1", "initialize"))>>,
          <<JunkCh>>, <<SpaceCh>>}

\* the response objects of handleRequest and of the stdin reader
ResultResponse(id, of) ==
  [id |-> id, kind |-> "result", code |-> 0, message |-> of]
\* an error response that carries the id as the request has it
ErrorResponseEchoId(request, message) ==
  [id |-> request.id, kind |-> "error", code |-> -1, message |-> message]
ErrorResponse(request, message) ==
  [id |-> OrNull(request.id), kind |-> "error", code |-> -1,
   message |-> message]
ParseErrorResponse ==
  [id |-> IdNull, kind |-> "error", code |-> -32700,
   message |-> "Parse error"]

\* handleRequest up to its return, or to its await of a tool that calls the
\* LIFX API (done is FALSE then).  The function of Object.prototype a tool
\* name can find returns at once, and its value is sent as the result.
handleRequest(request) ==
  IF request.jsonrpc # "2.0"
    THEN [done |-> TRUE,
          response |-> ErrorResponse(request, "Invalid JSON-RPC version")]
    ELSE IF request.method = "initialize"
      THEN [done |-> TRUE, response |-> ResultResponse(request.id, "initialize")]
      ELSE IF request.method = "tools/list"
        THEN [done |-> TRUE, response |-> ResultResponse(request.id, "tools")]
        ELSE IF request.method = "tools/call"
          THEN IF toolsLookup(request.name) = "undefined"
                 THEN [done |-> TRUE,
                       response |-> ErrorResponse(request, "Unknown tool")]
                 ELSE IF toolsLookup(request.name) = "inherited"
                   THEN [done |-> TRUE,
                         response |-> ResultResponse(request.id, "inherited")]
                   ELSE [done |-> FALSE]
          ELSE [done |-> TRUE,
                response |-> ErrorResponse(request, "Unknown method")]

\* handleRequest after the tool it awaited returned or threw
toolReturned(request, ok) ==
  IF ok THEN ResultResponse(request.id, "tool")
        ELSE ErrorResponse(request, "Failed to list lights")

\* !line.trim()
IsBlank(line) == \A i \in 1..Len(line) : line[i] = SpaceCh

\* JSON.parse(line) succeeds
IsRequest(line) == Len(line) = 1 /\ line[1].c = "rq"

\* The for loop of the stdin reader over the lines todo, up to its end or to
\* an await that waits for the LIFX API; each entry of out is a response
\* written to stdout, with the number of the line it answers
RECURSIVE RunLines(_, _)
RunLines(todo, out) ==
  IF todo = <<>>
    THEN [todo |-> <<>>, out |-> out]
    ELSE LET line == Head(todo).line
             n == Head(todo).n
         IN IF IsBlank(line)
              THEN RunLines(Tail(todo), out)
              ELSE IF ~IsRequest(line)
                THEN RunLines(Tail(todo),
                              Append(out, [n |-> n,
                                           response |-> ParseErrorResponse]))
                ELSE LET h == handleRequest(line[1].request)
                     IN IF h.done
                          THEN RunLines(Tail(todo),
                                        Append(out, [n |-> n,
                                                     response |-> h.response]))
                          ELSE [todo |-> todo, out |-> out]

InitWorker ==
  /\ wstdin = <<>>
  /\ nWritten = 0
  /\ worker = [inputBuffer |-> <<>>, read |-> <<>>, waiting |-> <<>>,
               stdout |-> <<>>]

\* the client writes a line
ClientWrites(line) ==
  /\ nWritten < MaxStdinLines
  /\ nWritten' = nWritten + 1
  /\ wstdin' = wstdin \o line \o <<NewLine>>
  /\ UNCHANGED worker
  /\ UNCHANGED <<logVars, callVars, reqVars, sessVars, llmVars, extraVars>>

\* one data event of stdin with the next k characters: the reader runs on it
StdinData(k) ==
  /\ k \in 1..Len(wstdin)
  /\ wstdin' = SubSeq(wstdin, k + 1, Len(wstdin))
  /\ LET buf == worker.inputBuffer \o toString(SubSeq(wstdin, 1, k))
         lines == Split(buf)
         complete == SubSeq(lines, 1, Len(lines) - 1)
         todo == [i \in 1..Len(complete) |->
                    [n |-> Len(worker.read) + i, line |-> complete[i]]]
         run == RunLines(todo, worker.stdout)
     IN worker' = [worker EXCEPT
                     !.inputBuffer = lines[Len(lines)],
                     !.read = @ \o complete,
                     !.waiting = IF run.todo = <<>> THEN @
                                                    ELSE Append(@, run.todo),
                     !.stdout = run.out]
  /\ UNCHANGED nWritten
  /\ UNCHANGED <<logVars, callVars, reqVars, sessVars, llmVars, extraVars>>

\* the tool the i-th waiting invocation awaits returns or throws; the
\* response is written and the invocation goes on with its lines
ToolReturns(i, ok) ==
  /\ i \in 1..Len(worker.waiting)
  /\ LET todo == worker.waiting[i]
         answered == Append(worker.stdout,
                            [n |-> Head(todo).n,
                             response |->
                               toolReturned(Head(todo).line[1].request, ok)])
         run == RunLines(Tail(todo), answered)
         others == [j \in 1..(Len(worker.waiting) - 1) |->
                      worker.waiting[IF j < i THEN j ELSE j + 1]]
     IN worker' = [worker EXCEPT
                     !.waiting = IF run.todo = <<>>
                                   THEN others
                                   ELSE [worker.waiting EXCEPT ![i] = run.todo],
                     !.stdout = run.out]
  /\ UNCHANGED <<wstdin, nWritten>>
  /\ UNCHANGED <<logVars, callVars, reqVars, sessVars, llmVars, extraVars>>

NextWorker ==
  \/ \E line \in ClientLines : ClientWrites(line)
  \/ \E k \in 1..(2 * MaxStdinLines) : StdinData(k)
  \/ \E i \in 1..MaxStdinLines, ok \in BOOLEAN : ToolReturns(i, ok)

(***************************************************************************)
(* The body validation of middleware/auth.js: SpecValid.  A request that   *)
(* passed the middleware before it reaches validateClaudeRequest or        *)
(* validateLifxRequest; the handler, which spawns the tool process, runs   *)
(* only when the validator called next().                                  *)
(***************************************************************************)
\* what the fields of a JSON body hold.  The two credentials are strings or
\* missing: one the check accepts, one it does not.  The message can also
\* be a value that is no string.
ClaudeKeys == {"absent", "sk-ant-key", "invalid-key"}
LifxKeys == {"absent", "20-chars-or-more", "short"}
Messages == {"absent", "text", "too-long", "number"}
\* maxTokens: -1 stands for a body without the field
TokenCounts == {-1, 10, 100, 5000}
UrlActions == {"list_lights", "resolve_selector", "invalid_action"}

allowedActions ==
  {"list_lights", "set_light_state", "toggle_lights", "set_brightness",
   "set_color", "breathe_effect", "pulse_effect"}

\* the ways a validator ends: next(), or res.status(400).json({code})
CallsNext == [next |-> TRUE, status |-> 0, code |-> "none"]
Rejects(code) == [next |-> FALSE, status |-> 400, code |-> code]

\* !claudeApiKey || !claudeApiKey.startsWith('sk-ant-')
claudeKeyCheck(claudeApiKey) ==
  IF claudeApiKey = "sk-ant-key" THEN "passes" ELSE "fails"

\* !lifxApiKey || lifxApiKey.length < 20
lifxKeyCheck(lifxApiKey) ==
  IF lifxApiKey \in {"absent", "short"} THEN "fails" ELSE "passes"

\* !message || typeof message !== 'string' || message.length > 1000
messageCheck(message) == IF message = "text" THEN "passes" ELSE "fails"

\* maxTokens && (maxTokens < 50 || maxTokens > 4000)
maxTokensCheck(maxTokens) ==
  IF maxTokens # -1 /\ (maxTokens < 50 \/ maxTokens > 4000)
    THEN "fails" ELSE "passes"

\* a validator that checks the LIFX key before the Claude key
validateClaudeRequestLifxFirst(body) ==
  IF lifxKeyCheck(body.lifxApiKey) = "fails"
    THEN Rejects("INVALID_LIFX_KEY")
    ELSE IF claudeKeyCheck(body.claudeApiKey) = "fails"
      THEN Rejects("INVALID_CLAUDE_KEY")
      ELSE IF messageCheck(body.message) = "fails"
        THEN Rejects("INVALID_MESSAGE")
        ELSE IF maxTokensCheck(body.maxTokens) = "fails"
          THEN Rejects("INVALID_MAX_TOKENS")
          ELSE CallsNext

validateClaudeRequest(body) ==
  IF claudeKeyCheck(body.claudeApiKey) = "fails"
    THEN Rejects("INVALID_CLAUDE_KEY")
    ELSE IF lifxKeyCheck(body.lifxApiKey) = "fails"
      THEN Rejects("INVALID_LIFX_KEY")
      ELSE IF messageCheck(body.message) = "fails"
        THEN Rejects("INVALID_MESSAGE")
        ELSE IF maxTokensCheck(body.maxTokens) = "fails"
          THEN Rejects("INVALID_MAX_TOKENS")
          ELSE CallsNext

validateLifxRequest(body, action) ==
  IF lifxKeyCheck(body.lifxApiKey) = "fails"
    THEN Rejects("INVALID_LIFX_KEY")
    ELSE IF action \notin allowedActions
      THEN Rejects("INVALID_ACTION")
      ELSE CallsNext

ChatBodies ==
  [claudeApiKey : ClaudeKeys, lifxApiKey : LifxKeys, message : Messages,
   maxTokens : TokenCounts]
ControlBodies == [lifxApiKey : LifxKeys]

InitValid == validated = [endpoint |-> "none"]

(***************************************************************************)
(* The handshake of mcpManager.js: SpecHandshake.  initializeMcpServer     *)
(* writes the initialize request with the id 'init' and listens on the     *)
(* stdout of the tool process, which is delivered in data events of any    *)
(* size, until the response arrives or 5 seconds have passed.              *)
(***************************************************************************)
\* the id of the initialize request
InitId == 99

\* initializeMcpServer before it is called
IdleHandshake ==
  [state |-> "idle", responseData |-> <<>>, listening |-> FALSE,
   timer |-> "none", outcome |-> "none", settles |-> 0, logged |-> <<>>]

InitHandshake == handshake = IdleHandshake

\* JSON.parse(responseData): the text parses if it is one JSON text with
\* nothing but white space (the newlines) around it
ParseWhole(responseData) ==
  Parse(SelectSeq(responseData, LAMBDA ch : ch # NewLine))

\* resolve and reject of the handshake's promise: a settled promise stays
\* as it is
handshakeSettle(h, outcome) ==
  IF h.outcome = "none"
    THEN [h EXCEPT !.outcome = outcome, !.settles = @ + 1]
    ELSE h

\* a handler that goes through the complete lines of what it has received
initResponseHandlerByLine(h, data) ==
  LET buf == h.responseData \o toString(data)
      lines == Split(buf)
      m == FirstMatch(lines, InitId)
  IN IF m # 0
       THEN handshakeSettle([h EXCEPT !.responseData = buf,
                                      !.listening = FALSE,
                                      !.logged =
                                        IF Parse(lines[m]).kind = "error" THEN @
                                        ELSE Append(@, "MCP server initialized")],
                            IF Parse(lines[m]).kind = "error"
                              THEN "rejected_error" ELSE "resolved")
       ELSE [h EXCEPT !.responseData = buf]

\* responseHandler of initializeMcpServer, run on one data event
initResponseHandler(h, data) ==
  LET buf == h.responseData \o toString(data)
      response == ParseWhole(buf)
  IN IF response.ok /\ response.id = InitId
       THEN handshakeSettle([h EXCEPT !.responseData = buf,
                                      !.listening = FALSE,
                                      !.logged =
                                        IF response.kind = "error" THEN @
                                        ELSE Append(@, "MCP server initialized")],
                            IF response.kind = "error"
                              THEN "rejected_error" ELSE "resolved")
       ELSE [h EXCEPT !.responseData = buf]

\* the callback of the 5 second timer, which is never cleared
initTimeout(h) ==
  handshakeSettle([h EXCEPT !.timer = "fired", !.listening = FALSE],
                  "rejected_timeout")

\* initializeMcpServer is called: the request is written, the listener
\* attached and the timer set; a write that throws is logged and thrown on
StartHandshake(writeThrows) ==
  /\ handshake.state = "idle"
  /\ handshake' =
       IF writeThrows
         THEN [handshake EXCEPT !.state = "started",
                                !.outcome = "rejected_write",
                                !.settles = 1,
                                !.logged = <<"MCP initialization failed">>]
         ELSE [handshake EXCEPT !.state = "started", !.listening = TRUE,
                                !.timer = "armed"]
  /\ UNCHANGED validated
  /\ UNCHANGED <<logVars, callVars, reqVars, sessVars, llmVars, workerVars>>

\* one data event of stdout with the next k characters
HandshakeDeliver(k) ==
  /\ k \in 1..Len(wire)
  /\ wire' = SubSeq(wire, k + 1, Len(wire))
  /\ handshake' = IF handshake.listening
                    THEN initResponseHandler(handshake, SubSeq(wire, 1, k))
                    ELSE handshake
  /\ UNCHANGED <<sent, calls, validated>>
  /\ UNCHANGED <<logVars, reqVars, sessVars, llmVars, workerVars>>

\* the timer of the handshake fires; the promise is returned without an
\* await, so that the catch block does not see its rejection
HandshakeTimeout ==
  /\ handshake.timer = "armed"
  /\ handshake' = initTimeout(handshake)
  /\ UNCHANGED validated
  /\ UNCHANGED <<logVars, callVars, reqVars, sessVars, llmVars, workerVars>>

\* what the tool process writes while the handshake runs: the response to
\* the initialize request, a parse error response, stray output
HandshakeLines ==
  {ResponseLine(InitId, kind, Len(sent) + 1) : kind \in {"result", "error"}}
    \cup {ResponseLine(0, "error", Len(sent) + 1), JunkLine}

NextHandshake ==
  \/ \E writeThrows \in BOOLEAN : StartHandshake(writeThrows)
  \/ \E line \in HandshakeLines : WorkerWrite(line)
  \/ \E k \in 1..(3 * MaxLines) : HandshakeDeliver(k)
  \/ HandshakeTimeout


\* POST /api/claude from validateClaudeRequest on
ValidateChat(body) ==
  /\ LET verdict == validateClaudeRequest(body)
     IN validated' = [endpoint |-> "chat", body |-> body, action |-> "none",
                      status |-> verdict.status, code |-> verdict.code,
                      spawned |-> verdict.next]
  /\ UNCHANGED handshake
  /\ UNCHANGED <<logVars, callVars, reqVars, sessVars, llmVars, workerVars>>

\* POST /api/lifx/:action from validateLifxRequest on
ValidateControl(body, action) ==
  /\ LET verdict == validateLifxRequest(body, action)
     IN validated' = [endpoint |-> "control", body |-> body,
                      action |-> action,
                      status |-> verdict.status, code |-> verdict.code,
                      spawned |-> verdict.next]
  /\ UNCHANGED handshake
  /\ UNCHANGED <<logVars, callVars, reqVars, sessVars, llmVars, workerVars>>

NextValid ==
  \/ \E body \in ChatBodies : ValidateChat(body)
  \/ \E body \in ControlBodies, action \in UrlActions :
       ValidateControl(body, action)

(***************************************************************************)
(* The specifications.                                                     *)
(***************************************************************************)
Init ==
  /\ InitLog /\ InitCall /\ InitReq /\ InitSess /\ InitLlm /\ InitWorker
  /\ InitValid /\ InitHandshake

SpecLog == Init /\ [][NextLog]_vars
SpecCall == Init /\ [][NextCall]_vars
SpecBytes == Init /\ [][NextBytes]_vars
SpecReq == Init /\ [][NextReq]_vars
\* the timer of a pending tool call fires once its delay has passed
SpecReqFair ==
  SpecReq /\ \A r \in Requests : WF_vars(CallSettle(r, "rejected_timeout"))
SpecSess == Init /\ [][NextSess]_vars
SpecSessLog == Init /\ [][NextSessLog]_vars
SpecLlm == Init /\ [][NextLlm]_vars
\* a round trip to the model that gets no response ends with the error of
\* the client library, whose requests time out; the timer of callMcpMethod
\* ends a tool call that got no response
SpecLlmFair ==
  /\ SpecLlm
  /\ WF_vars(ModelFails)
  /\ WF_vars(ToolSettles("rejected_timeout"))
SpecWorker == Init /\ [][NextWorker]_vars
SpecValid == Init /\ [][NextValid]_vars
SpecHandshake == Init /\ [][NextHandshake]_vars

(***************************************************************************)
(* The claims.                                                             *)
(***************************************************************************)

\* the three ways a pending call ends
PendingCallOutcomes == {"resolved", "rejected_error", "rejected_timeout"}

\* C1: every call whose request was written settles exactly once.  resolve
\* and reject are called at most once in all; a call whose timer is no longer
\* armed was settled by exactly one of: the result of a matching response,
\* the error of a matching response, the method timeout; a call that is not
\* settled yet still has its timer armed and its listener attached, so it
\* cannot stay unsettled.  A call whose write threw never became pending
\* and is rejected once with that error.
C1_SettlesExactlyOnce ==
  \A c \in CallIds :
    /\ calls[c].settles <= 1
    /\ (calls[c].settles = 1) <=> (calls[c].outcome # "none")
    /\ (calls[c].written /\ calls[c].timer # "armed")
         => /\ calls[c].settles = 1
            /\ calls[c].outcome \in PendingCallOutcomes
    /\ (calls[c].written /\ calls[c].settles = 0)
         => calls[c].timer = "armed" /\ calls[c].listening
    /\ (calls[c].state = "started" /\ ~calls[c].written)
         => calls[c].settles = 1 /\ calls[c].outcome = "rejected_write"
    /\ calls[c].outcome = "rejected_timeout" => calls[c].timer = "fired"
    /\ calls[c].outcome \in {"resolved", "rejected_error"}
         => calls[c].timer = "cleared"

\* C1 witness: one call was resolved by its response and the other one was
\* rejected by its timer, whose response was written all the same
C1_Witness ==
  /\ calls[1].outcome = "resolved"
  /\ calls[2].outcome = "rejected_timeout"
  /\ \E i \in 1..Len(sent) : sent[i].ok /\ sent[i].id = 2
  /\ wire = <<>>

\* the lines of the stream that are responses carrying id
ResponsesTo(id) == {i \in 1..Len(sent) : sent[i].ok /\ sent[i].id = id}

\* C2: a call settled by a response was settled by a response line that
\* carries its own id, resolved when that line holds a result and rejected
\* when it holds an error; and once the whole stream is delivered, every
\* call that did not time out and to which a response was written is
\* settled by the first response with its id, whatever the chunks were and
\* whatever lines came in between.
C2_SettledByOwnResponse ==
  \A c \in CallIds :
    /\ calls[c].outcome \in {"resolved", "rejected_error"}
         => /\ calls[c].response.ok
            /\ calls[c].response.id = c
            /\ calls[c].response.n \in ResponsesTo(c)
            /\ sent[calls[c].response.n] = calls[c].response
            /\ (calls[c].outcome = "resolved")
                  <=> (calls[c].response.kind = "result")
    /\ (/\ wire = <<>>
        /\ calls[c].written
        /\ calls[c].outcome # "rejected_timeout"
        /\ ResponsesTo(c) # {})
         => /\ calls[c].outcome \in {"resolved", "rejected_error"}
            /\ \A i \in ResponsesTo(c) : calls[c].response.n <= i

\* C2 witness: both calls pending at once, stray output first, then the
\* response to call 2 before the response to call 1, and call 1 found its
\* response behind the other one in a buffer that two data events filled
C2_Witness ==
  /\ Len(sent) = 3
  /\ ~sent[1].ok
  /\ calls[2].outcome = "resolved" /\ calls[2].response.n = 2
  /\ calls[1].outcome = "rejected_error" /\ calls[1].response.n = 3
  /\ calls[1].responseData =
       <<HeadCh(2, 2), TailCh("result"), NewLine,
         HeadCh(1, 3), TailCh("error"), NewLine>>

\* the operating system started a process for the request
Spawned(r) == proc[r].os \in {"starting", "running", "exited"}

\* C3: for every tool process spawned for a request, cleanupMcpProcess has
\* run exactly once when the handler is done, also when the spawn timed out
\* after the child was created.
C3_TeardownExactlyOnce ==
  \A r \in Requests :
    /\ req[r].cleanups <= 1
    /\ (req[r].pc = "done" /\ Spawned(r)) => req[r].cleanups = 1

\* C4: the counter is incremented once at admission and decremented exactly
\* once when the response of the request is finished or the client is gone:
\* it equals the number of admitted requests whose response is still open
\* or just sent, and is 0 when every admitted request has completed.
C4_CounterBalanced ==
  activeMcpCount =
    Cardinality({r \in Requests :
                   req[r].admitted /\ req[r].res \in {"open", "sent"}})

\* C5: a log query on behalf of a session returns no entry that carries the
\* session identifier of another session.
C5_NoCrossSessionEntries ==
  lastQuery.kind = "query"
    => \A i \in 1..Len(lastQuery.logs) :
         lastQuery.logs[i].sessionId \in {NoSession, lastQuery.sid}

\* C6: when the force kill timer of cleanupMcpProcess has fired and the
\* process that was sent SIGTERM has not exited, the process was sent
\* SIGKILL.
C6_ForceKillAfterGrace ==
  \A r \in Requests :
    (proc[r].forceTimer = "fired" /\ proc[r].os = "running")
      => \E i \in 1..Len(proc[r].sigs) : proc[r].sigs[i] = "SIGKILL"

\* C7: every tool call written to a tool process comes after an initialize
\* request written to that process.
C7_HandshakeBeforeToolCall ==
  \A r \in Requests :
    \A i \in 1..Len(req[r].stdin) :
      req[r].stdin[i] = "tools/call"
        => \E j \in 1..(i - 1) : req[r].stdin[j] = "initialize"

\* an admitted request whose handler has not returned yet
InFlight(r) == req[r].admitted /\ req[r].pc \in {"spawning", "calling"}

\* C8: at most MAX_CONCURRENT_MCP admitted requests are unfinished, at most
\* that many tool processes are alive for them, and a request answered 429
\* spawned no process.
C8_AtMostMaxInFlight ==
  /\ Cardinality({r \in Requests : InFlight(r)}) <= MAX_CONCURRENT_MCP
  /\ Cardinality({r \in Requests : InFlight(r) /\ Alive(proc[r])})
       <= MAX_CONCURRENT_MCP
  /\ \A r \in Requests : req[r].status = 429 => proc[r].os = "none"

\* C9: cleanupMcpProcess on a handle whose process is already dead changes
\* nothing: no signal, no timer, no log entry.
C9_TerminateOnDeadIsNoOp ==
  [][\A r \in Requests :
       (req'[r].cleanups = req[r].cleanups + 1 /\ ~Alive(proc[r]))
         => proc'[r] = proc[r]]_vars

\* the entry is an element of the buffer
Holds(buf, entry) == \E i \in 1..Len(buf) : buf[i] = entry

\* the system buffers that hold the entry
SystemStoresHolding(entry) ==
  {t \in LogTypes : Holds(logStorage.system[t], entry)}

\* the session buffers that hold the entry
SessionStoresHolding(entry) ==
  {kt \in (1..Len(logStorage.sessions)) \X LogTypes :
     Holds(logStorage.sessions[kt[1]].logs[kt[2]], entry)}

\* C10: the entry of a call of addLogToStorage is, when the call returns, in
\* exactly one buffer: a system buffer or a buffer of one session.
C10_RecordedInExactlyOneStore ==
  lastRecord.kind = "record"
    => Cardinality(SystemStoresHolding(lastRecord.entry))
         + Cardinality(SessionStoresHolding(lastRecord.entry)) = 1

\* the message contains one of the fixed operational keywords
MatchesKeyword(message) ==
  \E kw \in systemKeywords : Includes(ToLowerCase(message), kw)

\* C11: an entry is classified system exactly when its message matches one
\* of the fixed operational keywords, or it carries no session identifier
\* and is error-level.
C11_SystemIffKeywordOrErrorNoSession ==
  lastRecord.kind = "record"
    => LET e == lastRecord.entry
       IN isSystemLog(e.message, e.sessionId, e.level)
            <=> (MatchesKeyword(e.message)
                   \/ (e.sessionId = NoSession /\ e.level = "error"))

\* the newest maxLogEntries elements of a sequence
Newest(seq) ==
  IF Len(seq) > maxLogEntries
    THEN SubSeq(seq, Len(seq) - maxLogEntries + 1, Len(seq))
    ELSE seq

\* every buffer of a storage
Buffers(st) ==
  {st.system[t] : t \in LogTypes}
    \cup {st.sessions[kt[1]].logs[kt[2]] :
            kt \in (1..Len(st.sessions)) \X LogTypes}

\* the buffer of session sid for a store type, empty when sid has none
SessionBuffer(st, sid, type) ==
  IF HasSession(st, sid)
    THEN st.sessions[SessionIndex(st, sid)].logs[type]
    ELSE <<>>

\* the latest record went to a system buffer, to a session buffer
StoredInSystem == SystemStoresHolding(lastRecord.entry) # {}
StoredInSession == SessionStoresHolding(lastRecord.entry) # {}

TrackedIds(st) == [i \in 1..Len(st.sessions) |-> st.sessions[i].id]

\* the latest record created the buffer of its session
CreatedBuffer ==
  /\ lastRecord.kind = "record"
  /\ StoredInSession
  /\ ~HasSession(lastRecord.prev, lastRecord.entry.sessionId)

C14_AtMostCapReturned ==
  lastQuery.kind = "query" => Len(lastQuery.logs) <= LimitCap


\* C15: when a session is cleaned up, expired by the periodic sweep or
\* explicitly cleared, its log buffer is purged from the log storage: right
\* after the sweep no session the sweep expired has a buffer among the
\* session logs, and right after a clear-session request that cleared its
\* session that session has none.
C15_CleanedSessionLogsPurged ==
  /\ (lastOp # None /\ lastOp.kind = "sweep")
       => \A s \in lastOp.cleaned : ~HasSession(logStorage, s)
  /\ (lastOp # None /\ lastOp.kind = "http" /\ lastOp.code = "CLEARED")
       => ~HasSession(logStorage, lastOp.sid)

\* the request this step handled reached the session limiter: a control
\* request that passed the global validation, bore the access key and a
\* session id
ReachedSessionLimiter(op) ==
  /\ op.kind = "http"
  /\ op.ep = "control"
  /\ op.shape \in {"ok", "badBody"}
  /\ op.keyOk
  /\ op.sid # NoSession

\* C16: for every session the request counter never decreases while the
\* session stays tracked (until it is cleaned up) and never exceeds
\* SESSION_REQUEST_LIMIT; once it has reached the limit, every further
\* request routed through the session limiter is rejected with 429
\* SESSION_LIMIT and leaves the counter unchanged.
C16_CounterMonotoneAndCapped ==
  [][ /\ \A s \in DOMAIN sessionRequestCount' :
           sessionRequestCount'[s] <= SESSION_REQUEST_LIMIT
      /\ \A s \in DOMAIN sessionRequestCount \cap DOMAIN sessionRequestCount' :
           sessionRequestCount'[s] >= sessionRequestCount[s]
      /\ (/\ ReachedSessionLimiter(lastOp')
          /\ nHttp' = nHttp + 1
          /\ Has(sessionRequestCount, lastOp'.sid)
          /\ sessionRequestCount[lastOp'.sid] >= SESSION_REQUEST_LIMIT)
           => /\ lastOp'.status = 429
              /\ lastOp'.code = "SESSION_LIMIT"
              /\ ~lastOp'.pass
              /\ Has(sessionRequestCount', lastOp'.sid)
              /\ sessionRequestCount'[lastOp'.sid]
                   = sessionRequestCount[lastOp'.sid] ]_vars

\* a session at its limit was refused a further request
C16_Witness ==
  /\ ReachedSessionLimiter(lastOp)
  /\ lastOp.code = "SESSION_LIMIT"
  /\ lastOp.status = 429
  /\ Has(sessionRequestCount, lastOp.sid)
  /\ sessionRequestCount[lastOp.sid] = SESSION_REQUEST_LIMIT

\* the request passed validateContentType and validateRequestSize, which the
\* application runs on every request in front of the routes
PassedGlobalValidation(op) ==
  /\ ~(IsPost(op.ep) /\ op.shape = "notJson")
  /\ op.shape # "tooLarge"

\* this step is the handling of one HTTP request
HandledRequest == lastOp'.kind = "http" /\ nHttp' = nHttp + 1

\* the step left the session tracking, the limiters' counters, the count of
\* active processes and the processes as they were
NoTrackingNoProcess ==
  /\ UNCHANGED <<sessionTimestamps, sessionRequestCount, ipSessionMap, ipHits,
                 createdAt>>
  /\ UNCHANGED reqVars

HeldSessions ==
  DOMAIN sessionTimestamps \cup DOMAIN sessionRequestCount
    \cup UNION {ipSessionMap[i].sessions : i \in 1..Len(ipSessionMap)}

\* C19: every session whose age exceeds the configured maximum is purged by
\* the periodic sweep: right after a sweep, no session created more than
\* SESSION_MAX_AGE ago remains in the creation-timestamp map, the
\* request-count map or any IP's session set.
C19_SweepPurgesOldSessions ==
  (lastOp.kind = "sweep")
    => \A s \in HeldSessions :
         Has(createdAt, s) /\ clock - createdAt[s] <= SESSION_MAX_AGE

\* the request counter of a session, as the session limiter reads it
CountOf(cnt, s) == IF Has(cnt, s) THEN cnt[s] ELSE 0

IndexOf(seq, e) ==
  IF \E i \in 1..Len(seq) : seq[i] = e
    THEN CHOOSE i \in 1..Len(seq) :
           seq[i] = e /\ \A j \in 1..(i - 1) : seq[j] # e
    ELSE 0

\* the call's method timer fired
TimedOut(call) == call.outcome = "rejected_timeout"

\* C21: when no matching response arrives within the method window, the
\* call is rejected with a timeout and its stdout listener is detached
\* before the rejection; a response line with that call's id arriving after
\* the timeout has no effect on that call or on any other call: the timed-out
\* call is rejected exactly once, is never changed again by any later step,
\* and no other call is ever settled by a response that carries another id.
C21_TimeoutDetachesAndIsFinal ==
  [][ \A c \in CallIds :
        /\ (~TimedOut(calls[c]) /\ TimedOut(calls'[c]))
             => /\ calls[c].timer = "armed"
                /\ calls[c].settles = 0
                /\ ~calls'[c].listening
                /\ calls'[c].settles = 1
                /\ IndexOf(calls'[c].order, "off") # 0
                /\ IndexOf(calls'[c].order, "off")
                     < IndexOf(calls'[c].order, "reject")
        /\ TimedOut(calls[c]) => calls'[c] = calls[c]
        /\ (calls'[c].settles > calls[c].settles /\ calls'[c].response.ok)
             => calls'[c].response.id = c ]_vars

\* a response carrying the id of a timed-out call was written and wholly
\* delivered; the call is still rejected once with the timeout, and another
\* call is still pending
C21_Witness ==
  \E c \in CallIds :
    /\ TimedOut(calls[c])
    /\ calls[c].settles = 1
    /\ wire = <<>>
    /\ \E i \in 1..Len(sent) : sent[i].ok /\ sent[i].id = c
    /\ \E d \in CallIds \ {c} : calls[d].listening /\ calls[d].settles = 0

\* the number of newlines among the bytes not delivered yet
NewLinesIn(bytes) == Cardinality({i \in 1..Len(bytes) : bytes[i] = NewLine})

\* C22: chunk-boundary independence.  However the bytes the worker wrote are
\* split into data events, the response matched to a call is the one that is
\* matched when the stream is delivered in one chunk: the first line written
\* that carries the call's id, decoded as the whole line decodes; and no
\* line is parsed before its newline has arrived, so a call is settled by a
\* line only when that line and its newline were delivered.
C22_ChunkBoundaryIndependence ==
  \A c \in CallIds :
    (calls[c].outcome \in {"resolved", "rejected_error"})
      => /\ ResponsesTo(c) # {}
         /\ \E first \in ResponsesTo(c) :
              /\ \A i \in ResponsesTo(c) : first <= i
              /\ calls[c].response = sent[first]
              /\ NewLinesIn(wire) <= Len(sent) - first

\* C23: in every control request the tool process is torn down before the
\* HTTP response is sent: whenever the handler of a request that holds the
\* handle of its process has handed the result or the error to the client,
\* it has invoked the teardown of that process before.
C23_TeardownBeforeResponse ==
  \A r \in Requests :
    (req[r].mcpProcess /\ IndexOf(req[r].events, "respond") # 0)
      => /\ IndexOf(req[r].events, "terminate") # 0
         /\ IndexOf(req[r].events, "terminate")
              < IndexOf(req[r].events, "respond")

\* C24: if spawning the tool process fails (the spawn error of the operating
\* system, or no confirmation within the spawn window), the request is
\* aborted with a 5xx error response and no tool call is ever written to any
\* process for that request: from the rejection on the handler is done, its
\* answer is 500, it holds no process handle and nothing was or will be
\* written to a process.
C24_SpawnFailureAbortsRequest ==
  \A r \in Requests :
    (proc[r].promise = "rejected")
      => /\ req[r].pc = "done"
         /\ req[r].status = 500
         /\ IndexOf(req[r].events, "respond") # 0
         /\ ~req[r].mcpProcess
         /\ req[r].stdin = <<>>

\* the spawn window ran out, the request was answered 500, and the process
\* started all the same afterwards: nothing was written to it
C24_Witness ==
  \E r \in Requests :
    /\ proc[r].promise = "rejected"
    /\ proc[r].spawnTimer = "fired"
    /\ proc[r].os = "running"
    /\ req[r].status = 500
    /\ req[r].stdin = <<>>

\* the ids of the tool_use blocks of a response, in their order
ToolUseIds(content) ==
  LET IsToolUse(b) == b.type = "tool_use"
      uses == SelectSeq(content, IsToolUse)
  IN [k \in 1..Len(uses) |-> uses[k].id]

\* the tool-use ids of a list of tool results, in their order
ResultIds(results) == [k \in 1..Len(results) |-> results[k].tool_use_id]

\* C25: during an LLM-mediated request a tool call that fails (error
\* response, timeout, failed write) does not fail the request.  Each time a
\* tool call settles, one tool result with the id of its tool_use block is
\* added, flagged as an error exactly when the call failed, and the loop goes
\* on to the next block or to the model; when the results are fed back to
\* the model they are, in order, one result for every tool_use block the
\* model emitted.
C25_ToolFailureFedBack ==
  [][ (llm.pc = "tool" /\ llm' # llm)
        => /\ llm'.pc \in {"tool", "model"}
           /\ Len(llm'.toolResults) = Len(llm.toolResults) + 1
           /\ Len(llm'.outcomes) = Len(llm'.toolResults)
           /\ LET n == Len(llm'.toolResults)
              IN /\ llm'.toolResults[n].tool_use_id = llm.content[llm.i].id
                 /\ llm'.toolResults[n].is_error
                      <=> (llm'.outcomes[n] # "resolved")
           /\ (llm'.pc = "model")
                => /\ ResultIds(llm'.toolResults) = ToolUseIds(llm.content)
                   /\ llm'.creates = llm.creates + 1
                   /\ LET msgs == llm'.conversationMessages
                      IN /\ Len(msgs) = Len(llm.conversationMessages) + 2
                         /\ msgs[Len(msgs) - 1] =
                              [role |-> "assistant", content |-> llm.content]
                         /\ msgs[Len(msgs)] =
                              [role |-> "user", content |-> llm'.toolResults]
    ]_vars

\* the function returned normally after a turn in which one tool call failed
\* and another succeeded, both results having been sent to the model
C25_Witness ==
  /\ llm.pc = "returned"
  /\ \E j \in 2..Len(llm.conversationMessages) :
       LET m == llm.conversationMessages[j]
       IN /\ m.role = "user"
          /\ \E a, b \in 1..Len(m.content) :
               m.content[a].is_error /\ ~m.content[b].is_error

\* the values a function or record holds
ValuesOf(f) == {f[k] : k \in DOMAIN f}

\* a JSON-RPC request whose body holds the value v somewhere
RpcHolds(m, v) ==
  \/ v \in {m.jsonrpc, m.method, m.params.name}
  \/ v \in ValuesOf(m.params.arguments)

\* C26: the credential of a control request reaches the tool process in the
\* LIFX_TOKEN variable of its environment and nowhere else: it is not among the
\* process's command-line arguments, not in the body of any JSON-RPC request
\* written to the process, and not in any log entry the request stored.
C26_CredentialOnlyInEnvironment ==
  \A r \in Requests :
    /\ proc[r].os # "none" =>
         /\ proc[r].env.LIFX_TOKEN = Credential
         /\ Credential \notin ValuesOf(proc[r].argv)
    /\ \A i \in 1..Len(req[r].rpc) : ~RpcHolds(req[r].rpc[i], Credential)
    /\ \A i \in 1..Len(req[r].logged) : Credential \notin req[r].logged[i]
    /\ Credential \notin ValuesOf(proc[r].log)

\* a request whose process got the credential, was sent the tool call with the
\* caller's parameters, and answered 200 with its log entries stored
C26_Witness ==
  \E r \in Requests :
    /\ req[r].status = 200
    /\ proc[r].env.LIFX_TOKEN = Credential
    /\ Len(req[r].rpc) = 1
    /\ req[r].rpc[1].params.arguments = [selector |-> "all"]
    /\ Len(req[r].logged) = 4

\* the processes the handler of request r spawned
SpawnedBy(r) == {p \in Requests : proc[p].spawnedBy = r}

\* C27: a control request in flight owns exactly one tool process; every tool
\* call written to a process was written by the request that spawned it, so
\* no process is used by two requests.
C27_OneProcessPerRequest ==
  /\ \A r \in Requests : InFlight(r) => Cardinality(SpawnedBy(r)) = 1
  /\ \A p \in Requests :
       \A i \in 1..Len(proc[p].writers) :
         proc[p].writers[i] = proc[p].spawnedBy

\* two requests in flight at once, each having written its tool call to its
\* own process
C27_Witness ==
  \E r1, r2 \in Requests :
    /\ r1 # r2
    /\ req[r1].pc = "calling" /\ req[r2].pc = "calling"
    /\ proc[r1].writers = <<r1>> /\ proc[r2].writers = <<r2>>

\* the tool process of request r has exited and the request's call is pending
ExitedWhilePending(r) == req[r].pc = "calling" /\ proc[r].os = "exited"

\* C28 on the direct control endpoint: when the tool process exits while the
\* request's call is pending, the exit itself changes nothing in the host; the
\* call then rejects by its timeout and the request is answered with an error
\* response (never with a result), and this does happen: the call does not
\* stay pending forever.
C28_ExitWhilePendingFailsTheCall ==
  /\ [][\A r \in Requests :
          /\ (req[r].pc = "calling" /\ proc[r].os = "running"
                /\ proc'[r].os = "exited")
               => (req' = req /\ activeMcpCount' = activeMcpCount)
          /\ (ExitedWhilePending(r) /\ req'[r].pc # "calling")
               => /\ req'[r].pc = "done"
                  /\ req'[r].status = 500
                  /\ req'[r].events = req[r].events \o <<"respond", "terminate">>]_vars
  /\ \A r \in Requests :
       ExitedWhilePending(r) ~> (req[r].pc = "done" /\ req[r].status = 500)

\* a request answered 500 for the timeout of its call, whose process had
\* exited by itself before the handler's teardown could signal it
C28_Witness ==
  \E r \in Requests :
    /\ req[r].pc = "done" /\ req[r].status = 500
    /\ req[r].mcpProcess
    /\ proc[r].os = "exited" /\ proc[r].sigs = <<>>
    /\ LogControlError(RequestAction, "rejected_timeout")
         = req[r].logged[Len(req[r].logged)]

\* C28 on the chat endpoint: a request whose tool process exited while one of
\* its tool calls was pending is answered with an error response:
\* callClaudeWithMcp does not return a success for it.
C28_ExitWhilePendingAbortsChat ==
  toolProcess.whilePending => llm.pc # "returned"

\* the complete non-empty lines that fail to decode among those the response
\* handler of call goes through when it runs on the chunk data
UndecodableLines(call, requestId, data) ==
  LET lines == Split(call.responseData \o toString(data))
      m == FirstMatch(lines, requestId)
      last == IF m # 0 THEN m - 1 ELSE Len(lines) - 1
  IN {lines[i] : i \in {j \in 1..last :
                          lines[j] # <<>> /\ ~Parse(lines[j]).ok}}

\* C29: when a data event brings a listening call complete non-empty lines
\* that fail to decode, the handler emits, for each of them, a decode-error
\* event that carries the line.
C29_UndecodableLineReported ==
  [][\A c \in CallIds :
       (calls[c].listening /\ Len(wire') < Len(wire))
         => LET data == SubSeq(wire, 1, Len(wire) - Len(wire'))
                was == Len(calls[c].order)
                now == calls'[c].order
            IN \A line \in UndecodableLines(calls[c], c, data) :
                 \E j \in (was + 1)..Len(now) :
                   now[j] = <<"decode-error", line>>]_vars

\* C30: the promise of spawnMcpServer settles exactly once, with one
\* outcome that never changes: the handle when the spawn event came first
\* (the spawn timer is then cleared and stays so: it neither signals the
\* process nor rejects), the spawn timeout when the timer fired first, or the
\* spawn error when the error event came first.
C30_SpawnSettlesOnce ==
  /\ [](\A r \in Requests :
          LET p == proc[r]
          IN /\ p.promise \in {"none", "pending"}
                  <=> (p.settles = 0 /\ p.outcome = "none")
             /\ p.promise = "resolved"
                  <=> (p.settles = 1 /\ p.outcome = "handle")
             /\ p.promise = "rejected"
                  <=> (p.settles = 1
                         /\ p.outcome \in {"spawn_timeout", "spawn_error"})
             /\ p.outcome = "handle"
                  => /\ p.spawnTimer = "cleared"
                     /\ p.os \in {"running", "exited"}
             /\ p.outcome = "spawn_timeout" => p.spawnTimer = "fired"
             /\ p.outcome = "spawn_error"
                  => p.spawnTimer = "cleared" /\ p.os = "failedDone")
  /\ [][\A r \in Requests :
          proc[r].settles = 1
            => /\ proc'[r].settles = 1
               /\ proc'[r].outcome = proc[r].outcome
               /\ proc'[r].promise = proc[r].promise]_vars

\* the three outcomes, and a start that was confirmed only after the timer
\* had rejected
C30_Witness ==
  /\ \E r \in Requests : proc[r].outcome = "handle"
  /\ \E r \in Requests :
       /\ proc[r].outcome = "spawn_timeout"
       /\ proc[r].os = "running"

\* the request the server answered with the entry o of its stdout
AnsweredLine(o) == worker.read[o.n]

\* C31: a tools/call request of the host that names a tool the server does
\* not implement is answered with an error response that carries the
\* request's id and the message "Unknown tool" (which is what the host's call
\* rejects with).
C31_UnknownToolRejected ==
  \A j \in 1..Len(worker.stdout) :
    LET o == worker.stdout[j]
        line == AnsweredLine(o)
    IN (/\ IsRequest(line)
        /\ line[1].request.jsonrpc = "2.0"
        /\ line[1].request.method = "tools/call"
        /\ line[1].request.id \in HostIds
        /\ line[1].request.name \notin OwnTools)
         => /\ o.response.kind = "error"
            /\ o.response.id = line[1].request.id
            /\ o.response.message = "Unknown tool"

\* the code of the first check, in the order given, that the chat body b
\* does not meet; "none" if it meets them all
FirstFailingChat(b) ==
  IF b.claudeApiKey # "sk-ant-key"
    THEN "INVALID_CLAUDE_KEY"
    ELSE IF b.lifxApiKey # "20-chars-or-more"
      THEN "INVALID_LIFX_KEY"
      ELSE IF b.message # "text"
        THEN "INVALID_MESSAGE"
        ELSE IF b.maxTokens # -1 /\ b.maxTokens \notin 50..4000
          THEN "INVALID_MAX_TOKENS"
          ELSE "none"

FirstFailingControl(b, action) ==
  IF b.lifxApiKey # "20-chars-or-more"
    THEN "INVALID_LIFX_KEY"
    ELSE IF action \notin allowedActions THEN "INVALID_ACTION" ELSE "none"

C33_UsageHeaders ==
  lastOp.kind = "http"
    => IF ReachedSessionLimiter(lastOp) /\ lastOp.code # "SESSION_LIMIT"
         THEN /\ lastOp.hdr.set
              /\ lastOp.hdr.used = CountOf(sessionRequestCount, lastOp.sid)
              /\ lastOp.hdr.used >= 1
              /\ lastOp.hdr.remaining
                   = SESSION_REQUEST_LIMIT - lastOp.hdr.used
              /\ lastOp.hdr.remaining >= 0
         ELSE ~lastOp.hdr.set

\* a request that took the last unit of its session's quota: used is the
\* limit and remaining is 0
C33_Witness ==
  /\ ReachedSessionLimiter(lastOp)
  /\ lastOp.pass
  /\ lastOp.hdr.set
  /\ lastOp.hdr.used = SESSION_REQUEST_LIMIT
  /\ lastOp.hdr.remaining = 0

\* the complete lines of text that are a response with the handshake id
InitResponseLines(text) ==
  LET lines == Split(text)
  IN {i \in 1..(Len(lines) - 1) :
        Parse(lines[i]).ok /\ Parse(lines[i]).id = InitId}

\* C34: once the data events have brought the listening handshake a complete
\* response line with the handshake id, before its timer fired, the
\* handshake is settled by that response (a result resolves it), whatever
\* other output came before or after the line and however the output was
\* chunked; the timer, firing later, changes nothing of it.
C34_HandshakeToleratesOtherOutput ==
  LET hits == InitResponseLines(handshake.responseData)
  IN hits # {}
       => LET first == CHOOSE i \in hits : \A j \in hits : i <= j
              response == Parse(Split(handshake.responseData)[first])
          IN /\ handshake.settles = 1
             /\ handshake.outcome = IF response.kind = "error"
                                      THEN "rejected_error" ELSE "resolved"

\* the responses on stdout that answer the n-th line the server read
AnswersTo(n) == {j \in 1..Len(worker.stdout) : worker.stdout[j].n = n}

\* the lines an invocation of the reader has still to go through
StillToDo ==
  UNION {{worker.waiting[i][j].n : j \in 1..Len(worker.waiting[i])} :
           i \in 1..Len(worker.waiting)}

\* C35: every non-empty line the server read and is done with has exactly
\* one response on stdout, no line has more than one, and the response to a
\* request that carries an id carries the same id, be it a result or an
\* error; a line that cannot be parsed is answered with the id null.
C35_OneResponseWithTheRequestId ==
  \A n \in 1..Len(worker.read) :
    LET line == worker.read[n]
    IN /\ Cardinality(AnswersTo(n)) <= 1
       /\ IsBlank(line) => AnswersTo(n) = {}
       /\ (~IsBlank(line) /\ n \notin StillToDo)
            => Cardinality(AnswersTo(n)) = 1
       /\ \A j \in AnswersTo(n) :
            IF IsRequest(line)
              THEN line[1].request.id # IdAbsent
                     => worker.stdout[j].response.id = line[1].request.id
              ELSE worker.stdout[j].response = ParseErrorResponse

\* callClaudeWithMcp is suspended: it awaits the model or a tool call
Suspended == llm.pc \in {"model", "tool"}

\* how far callClaudeWithMcp is from its end: the round trips the model has
\* left, and in a turn of the loop the blocks the for loop has left
Rank(l) ==
  IF l.pc \notin {"model", "tool"}
    THEN 0
    ELSE (MaxCreates - l.creates) * (MaxBlocks + 2)
           + (IF l.pc = "model" THEN MaxBlocks + 2
                                ELSE Len(l.content) - l.i + 1)

C36_SuspensionEnds == Suspended ~> llm.pc \in {"returned", "thrown"}

RejectedLate(op, reqs, status, code) ==
  /\ op.kind = "http"
  /\ op.ep = "control"
  /\ \/ ~op.pass /\ op.status = status /\ op.code = code
     \/ /\ op.pass /\ code \in {"SERVER_BUSY", "VALIDATION"}
        /\ reqs[op.slot].pc = "done"
        /\ reqs[op.slot].status = status
        /\ reqs[op.slot].admitted = (code = "VALIDATION")

\* C37: a control request that the IP limiter rejects with 429
\* IP_RATE_LIMIT, that mcpLimiter rejects with 429 (server busy) or that
\* the body validation rejects with 400 has raised the request counter of
\* its session by one.
C37_LateRejectionsConsumeQuota ==
  [][\A late \in {<<429, "IP_RATE_LIMIT">>, <<429, "SERVER_BUSY">>,
                  <<400, "VALIDATION">>} :
       RejectedLate(lastOp', req', late[1], late[2])
         => sessionRequestCount' =
              Set(sessionRequestCount, lastOp'.sid,
                  CountOf(sessionRequestCount, lastOp'.sid) + 1)]_vars

\* the IP limiter rejected a request of a session that was new, and the
\* session has used one request of its quota
C37_Witness ==
  /\ RejectedLate(lastOp, req, 429, "IP_RATE_LIMIT")
  /\ CountOf(sessionRequestCount, lastOp.sid) = 1

\* the two later rejections
C37_SeenBusy ==
  /\ RejectedLate(lastOp, req, 429, "SERVER_BUSY")
  /\ CountOf(sessionRequestCount, lastOp.sid) = 1
C37_SeenInvalid ==
  /\ RejectedLate(lastOp, req, 400, "VALIDATION")
  /\ CountOf(sessionRequestCount, lastOp.sid) = 1

\* C38: when POST /api/clear-session answers that the session was cleared,
\* the session has neither a request counter nor a timestamp; and a control
\* request of a session without a timestamp that reaches the session limiter
\* is a new session: its timestamp is the time of the request and its
\* counter is 1, whatever the session had used before it was cleared.
C38_ClearedSessionStartsAnew ==
  [][/\ (/\ lastOp'.kind = "http"
         /\ lastOp'.ep = "clear"
         /\ lastOp'.code = "CLEARED")
          => /\ ~Has(sessionRequestCount', lastOp'.sid)
             /\ ~Has(sessionTimestamps', lastOp'.sid)
     /\ (/\ lastOp'.kind = "http"
         /\ lastOp'.ep = "control"
         /\ lastOp'.code \notin {"INVALID_CONTENT_TYPE", "REQUEST_TOO_LARGE",
                                 "UNAUTHORIZED", "MISSING_SESSION_ID"}
         /\ ~Has(sessionTimestamps, lastOp'.sid))
          => /\ lastOp'.code # "SESSION_LIMIT"
             /\ sessionTimestamps'[lastOp'.sid] = clock
             /\ sessionRequestCount'[lastOp'.sid] = 1]_vars

\* session sA, the only session seen, had used its whole quota, was cleared,
\* and its next request was admitted as the first of a new session
C38_Witness ==
  /\ lastOp.kind = "http"
  /\ lastOp.ep = "control"
  /\ lastOp.sid = "sA"
  /\ lastOp.pass
  /\ lastOp.slot = 2
  /\ clock = 0
  /\ nHttp = 3
  /\ DOMAIN sessionTimestamps = {"sA"}
  /\ sessionRequestCount["sA"] = 1
  /\ SESSION_REQUEST_LIMIT = 1

\* C39: a request that access control rejects with 401 UNAUTHORIZED leaves
\* the log storage as it was: no session's log buffer is created, grown or
\* evicted, and the system buffer gets no entry.
C39_UnauthorizedLeavesLogsAlone ==
  [][(lastOp'.kind = "http" /\ lastOp'.code = "UNAUTHORIZED")
       => /\ logStorage'.sessions = logStorage.sessions
          /\ logStorage'.system = logStorage.system]_vars

\* the part of it on the system buffer
C39_UnauthorizedAddsNoSystemEntry ==
  [][(lastOp'.kind = "http" /\ lastOp'.code = "UNAUTHORIZED")
       => logStorage'.system = logStorage.system]_vars

\* a request that access control rejected evicted the log buffer of another
\* session and created one for the session id it bore
C39_SeenEviction ==
  /\ lastOp.kind = "http"
  /\ lastOp.code = "UNAUTHORIZED"
  /\ HasSession(logStorage, lastOp.sid)
  /\ nLogs > 2
  /\ ~HasSession(logStorage, "sB")
  /\ Has(sessionTimestamps, "sB")

====
